---------------------------- MODULE Spec2Model ----------------------------
(***************************************************************************)
(* State-machine model of the traffic dashboard's client core:             *)
(*   - the Zustand store (store/useSystemStore.ts, src/unnamed/part_003)   *)
(*   - the WebSocket -> store integration layer                            *)
(*     (frontend/src/services/websocketIntegration.ts)                     *)
(*   - the WebSocketService connection state (src/unnamed/part_001)        *)
(*                                                                         *)
(* A JavaScript object is modelled as a record.  A field that is absent or *)
(* holds `undefined` reads as Undef.  Junction and road objects carry a    *)
(* `ref` field, the identity of the object: two records with the same ref  *)
(* are the same object, and an assignment through one is seen through the  *)
(* other.  Vehicle objects are never assigned to after construction, so    *)
(* they carry no identity.                                                 *)
(***************************************************************************)
EXTENDS Integers, Sequences, FiniteSets, TLC

VARIABLES
    vehicles,           \* store.vehicles : sequence of Vehicle records
    vehicleCount,       \* store.vehicleCount
    junctions,          \* store.junctions : sequence of Junction records
    roads,              \* store.roads : sequence of RoadSegment records
    status,             \* WebSocketService._status
    reconnectAttempts,  \* WebSocketService._reconnectAttempts
    sock,               \* socket.io connection phase: closed / opening / open
    backoffAttempts,    \* socket.io manager's retry counter of the current series
    reconnecting,       \* socket.io manager has a retry timer pending
    exhausted,          \* the manager gave up (reconnect_failed) and nobody called connect() since
    socketLevelEvents,  \* build-dependent: reconnect_attempt / reconnect are delivered on the socket
    shotJunctions,      \* the junctions array a reader got from the store earlier
    shotRoads,          \* the roads array a reader got from the store earlier
    shotJunctionsAt,    \* what shotJunctions held when the reader got it
    shotRoadsAt,        \* what shotRoads held when the reader got it
    emitted,            \* the messages WebSocketService handed to socket.emit, in order
    promise,            \* the promise returned by the last emitWithAck call
    ack,                \* where the acknowledgement of that call is
    listeners,          \* WebSocketService.listeners : event -> set of callbacks
    attached,           \* the socket's callbacks per event, in order of registration
    unsubs,             \* the unsubscribe functions on() has returned, as <<event, callback>>
    mounted,            \* the Dashboard page is mounted
    fetchPc,            \* Dashboard.fetchInitialData : "pending", "loaded" or "failed"
    demoMode,           \* Dashboard's demoMode state
    intervalOn,         \* useDemoMode: the tick interval is set
    vehiclesRef,        \* useDemoMode: vehiclesRef.current
    timeRef,            \* useDemoMode: timeRef.current
    simulationTime,     \* store.simulationTime
    isRunning,          \* store.isRunning
    perf,               \* store.avgDensity, congestionPoints, throughput, fps
    mapMounted,         \* CityMap is mounted (canvasRef.current is the canvas)
    effectDue,          \* CityMap's render callback was re-created; its effect has not run yet
    pending,            \* ids of the animation frame requests not yet run or cancelled
    animationRef,       \* CityMap's animationRef.current, 0 for undefined
    closureRoads,       \* roads held by the render callback that runs the loop: id, drawable
    closureJunctions,   \* junctions held by that callback: id, drawable
    drawn,              \* what the last run of render drew
    hoveredJunction,    \* CityMap's hoveredJunction state, "null" for null
    mousePos,           \* CityMap's mousePos state
    surface,            \* width and height given to the last projection
    geo,                \* the point last given to gpsToCanvas, in 1/1000 degree
    canvasPos,          \* the pixel gpsToCanvas returned for it
    gps,                \* what canvasToGPS returned for that pixel, as exact fractions
    projPc,             \* "idle", "projected" or "unprojected"
    wsConnected,        \* store.wsConnected
    mode,               \* store.mode
    agentStatus,        \* store.agentStatus
    agentStrategy,      \* store.agentStrategy
    cleanupFunctions,   \* websocketIntegration's cleanupFunctions array
    intervals,          \* the connectionCheck intervals that are set
    setups,             \* calls of setupWebSocketListeners so far
    app,                \* the App component: "initial", "mounted" or "unmounted"
    appInit,            \* App's initialize(): "idle", "pending", "loaded" or "failed"
    lastOp              \* name and target id of the last operation applied

storeVars == <<vehicles, vehicleCount, junctions, roads>>
connVars  == <<status, reconnectAttempts, sock, backoffAttempts, reconnecting, exhausted,
               socketLevelEvents>>
shotVars  == <<shotJunctions, shotRoads, shotJunctionsAt, shotRoadsAt>>
subVars   == <<listeners, attached, unsubs>>
wireVars  == <<emitted, promise, ack, subVars>>
demoVars  == <<mounted, fetchPc, demoMode, intervalOn, vehiclesRef, timeRef, simulationTime,
               isRunning, perf>>
mapVars   == <<mapMounted, effectDue, pending, animationRef, closureRoads, closureJunctions,
               drawn>>
hoverVars == <<hoveredJunction, mousePos>>
projVars  == <<surface, geo, canvasPos, gps, projPc>>
modeVars  == <<mode, agentStatus, agentStrategy>>
integVars == <<cleanupFunctions, intervals, setups, app, appInit>>
appVars   == <<wsConnected, modeVars, integVars>>
viewVars  == <<hoverVars, projVars, appVars>>
pageVars  == <<demoVars, mapVars, viewVars>>
restVars  == <<wireVars, pageVars>>
vars      == <<vehicles, vehicleCount, junctions, roads, status, reconnectAttempts, sock,
               backoffAttempts, reconnecting, exhausted, socketLevelEvents, shotJunctions,
               shotRoads, shotJunctionsAt, shotRoadsAt, emitted, promise, ack, listeners,
               attached, unsubs, mounted, fetchPc, demoMode, intervalOn, vehiclesRef,
               timeRef, simulationTime, isRunning, perf, mapMounted, effectDue, pending,
               animationRef, closureRoads, closureJunctions, drawn, hoveredJunction, mousePos,
               surface, geo, canvasPos, gps, projPc, wsConnected, mode, agentStatus,
               agentStrategy, cleanupFunctions, intervals, setups, app, appInit,
               lastOp>>

(***************************************************************************)
(* Bounds of the model                                                     *)
(***************************************************************************)
MaxVehicles == 2        \* longest vehicles array explored
MaxBatch == 2           \* longest batch payload explored
MaxDeficit == 1         \* vehicleCount is explored down to -MaxDeficit
MaxCount == 3           \* highest vehicleCount explored
AttemptsCap == 8        \* highest _reconnectAttempts explored
MaxEmitted == 2         \* most outbound messages recorded
MaxAttached == 3        \* most callbacks attached to one event of the socket
MaxTicks == 2           \* most demo ticks explored
MaxSetups == 3          \* most calls of setupWebSocketListeners explored
MaxRunTicks == 439      \* most ticks of a run of the simulator alone: one past the first respawn
MaxPending == 2         \* most animation frame requests pending at once
GridSteps == 4          \* projected points lie on a grid of GridSteps x GridSteps cells

(***************************************************************************)
(* Values                                                                  *)
(***************************************************************************)
Undef == "undefined"
Null == "null"
NoId == "-"

VehicleIds == {"V1", "V2"}
UnknownVehicleId == "V999"
JunctionIds == {"J1", "J2"}
UnknownJunctionId == "J999"
RoadIds == {"R1", "R2"}
UnknownRoadId == "R999"
Directions == {"north", "east", "south", "west"}
\* the directions the explored signal changes address
ChangedDirections == {"north", "west"}

Op(name, id) == [op |-> name, id |-> id]

RECURSIVE SeqIndexOf(_, _, _)
\* Array.prototype.findIndex(e => e.id === id), 1-based; 0 when not found
SeqIndexOf(s, id, from) ==
    IF from > Len(s) THEN 0
    ELSE IF s[from].id = id THEN from
    ELSE SeqIndexOf(s, id, from + 1)

FindIndex(s, id) == SeqIndexOf(s, id, 1)

\* Array.prototype.filter(e => e.id !== id)
FilterOutId(s, id) == SelectSeq(s, LAMBDA e : e.id # id)

Ids(s) == {s[i].id : i \in 1..Len(s)}

UniqueIds(s) == \A i, j \in 1..Len(s) : s[i].id = s[j].id => i = j

\* { ...base, ...delta } : every key of delta overrides, every other key of base stays
Spread(base, delta) ==
    [f \in DOMAIN base \cup DOMAIN delta |->
        IF f \in DOMAIN delta THEN delta[f] ELSE base[f]]

(***************************************************************************)
(* Vehicles                                                                *)
(***************************************************************************)
\* vehicle:spawned handler builds this object
SpawnedVehicle(data) ==
    [id |-> data.vehicleId,
     type |-> data.type,
     position |-> data.position,
     speed |-> 0,
     heading |-> 0,
     currentRoad |-> "null",
     isEmergency |-> (data.type = "ambulance"),
     spawnTime |-> data.timestamp,
     lastUpdate |-> data.timestamp,
     lat |-> Undef,
     lon |-> Undef]

\* a vehicle as the REST snapshot delivers it (with a geographic coordinate)
ApiVehicle(id, pos) ==
    [id |-> id, type |-> "car", position |-> pos, speed |-> 3, heading |-> 45,
     currentRoad |-> "R1", isEmergency |-> FALSE, spawnTime |-> 0, lastUpdate |-> 0,
     lat |-> "23.2", lon |-> "72.6"]

VehicleSnapshots ==
    { <<>>,
      <<ApiVehicle("V1", "p0"), ApiVehicle("V2", "p1")>> }

\* payloads of vehicle:update ; lat / lon are optional on the wire
VehicleUpdateInputs ==
    { [vehicleId |-> i, position |-> "p2", speed |-> 5, heading |-> 90, timestamp |-> 2,
       lat |-> g[1], lon |-> g[2]] :
        i \in VehicleIds \cup {UnknownVehicleId}, g \in {<<Undef, Undef>>, <<"23.3", "72.7">>} }

\* entries of vehicles:batch_update
BatchEntries ==
    { [vehicleId |-> i, position |-> "p3", speed |-> 7, heading |-> 180, timestamp |-> 3,
       lat |-> Undef, lon |-> Undef] : i \in VehicleIds \cup {UnknownVehicleId} }

VehicleBatchInputs ==
    { b \in UNION { [1..n -> BatchEntries] : n \in 1..MaxBatch } : TRUE }

VehicleSpawnInputs ==
    { [vehicleId |-> i, type |-> t, position |-> "p4", timestamp |-> 4] :
        i \in VehicleIds, t \in {"car", "ambulance"} }

\* arguments of store.updateVehicle : Partial<Vehicle> & { id }
StoreVehicleDeltas ==
    { [id |-> i, speed |-> 9] : i \in VehicleIds \cup {UnknownVehicleId} }

\* store.updateVehicles(vehicles)
updateVehicles(vs) ==
    /\ vehicles' = vs
    /\ vehicleCount' = Len(vs)
    /\ lastOp' = Op("updateVehicles", NoId)
    /\ UNCHANGED <<junctions, roads, shotVars, connVars, restVars>>

\* store.updateVehicle(update)
updateVehicle(update) ==
    /\ vehicles' = [i \in 1..Len(vehicles) |->
                      IF vehicles[i].id = update.id
                      THEN Spread(vehicles[i], update)
                      ELSE vehicles[i]]
    /\ lastOp' = Op("updateVehicle", update.id)
    /\ UNCHANGED <<vehicleCount, junctions, roads, shotVars, connVars, restVars>>

\* Math.max(0, n)
Max0(n) == IF n < 0 THEN 0 ELSE n

\* store.removeVehicle(vehicleId)
removeVehicle(vehicleId) ==
    /\ vehicles' = FilterOutId(vehicles, vehicleId)
    /\ vehicleCount' = Max0(Len(vehicles) - 1)
    /\ lastOp' = Op("removeVehicle", vehicleId)
    /\ UNCHANGED <<junctions, roads, shotVars, connVars, restVars>>

\* the array the vehicle:update handler returns for the array vs
UpdatedVehicles(vs, data) ==
    LET index == FindIndex(vs, data.vehicleId)
    IN  IF index # 0
        THEN [vs EXCEPT ![index] =
                Spread(vs[index],
                       [position |-> data.position,
                        speed |-> data.speed,
                        heading |-> data.heading,
                        lastUpdate |-> data.timestamp,
                        lat |-> data.lat,
                        lon |-> data.lon])]
        ELSE vs

\* handler of vehicle:update
onVehicleUpdate(data) ==
    /\ vehicles' = UpdatedVehicles(vehicles, data)
    /\ lastOp' = Op("vehicle:update", data.vehicleId)
    /\ UNCHANGED <<vehicleCount, junctions, roads, shotVars, connVars, restVars>>

\* new Map(array.map(e => [e.id, e])) : the keys in first-insertion order
RECURSIVE MapKeys(_, _, _)
MapKeys(s, i, acc) ==
    IF i > Len(s) THEN acc
    ELSE IF \E k \in 1..Len(acc) : acc[k] = s[i].id
         THEN MapKeys(s, i + 1, acc)
         ELSE MapKeys(s, i + 1, Append(acc, s[i].id))

\* the value under a key: the last array element with that id
LastIndexOf(s, id) == CHOOSE i \in 1..Len(s) :
                          /\ s[i].id = id
                          /\ \A j \in (i + 1)..Len(s) : s[j].id # id

\* Array.from(new Map(array.map(e => [e.id, e])).values())
MapValues(s) ==
    LET keys == MapKeys(s, 1, <<>>)
    IN  [k \in 1..Len(keys) |-> s[LastIndexOf(s, keys[k])]]

RECURSIVE ApplyVehicleBatch(_, _, _)
\* the for-loop of the vehicles:batch_update handler over a map held as a
\* sequence with unique ids
ApplyVehicleBatch(m, updates, n) ==
    IF n > Len(updates) THEN m
    ELSE LET update == updates[n]
             k == FindIndex(m, update.vehicleId)
         IN  IF k # 0
             THEN ApplyVehicleBatch(
                    [m EXCEPT ![k] = Spread(m[k],
                                       [position |-> update.position,
                                        speed |-> update.speed,
                                        heading |-> update.heading,
                                        lastUpdate |-> update.timestamp])],
                    updates, n + 1)
             ELSE ApplyVehicleBatch(m, updates, n + 1)

\* handler of vehicles:batch_update
onVehicleBatchUpdate(data) ==
    /\ LET vehicleMap == ApplyVehicleBatch(MapValues(vehicles), data, 1)
       IN  /\ vehicles' = vehicleMap
           /\ vehicleCount' = Len(vehicleMap)
    /\ lastOp' = Op("vehicles:batch_update", NoId)
    /\ UNCHANGED <<junctions, roads, shotVars, connVars, restVars>>

\* handler of vehicle:spawned
onVehicleSpawnedUpTo(data, maxLen, maxCount) ==
    /\ Len(vehicles) < maxLen
    /\ vehicleCount < maxCount
    /\ vehicles' = Append(vehicles, SpawnedVehicle(data))
    /\ vehicleCount' = vehicleCount + 1
    /\ lastOp' = Op("vehicle:spawned", data.vehicleId)
    /\ UNCHANGED <<junctions, roads, shotVars, connVars, restVars>>

\* the handler on a store of at most MaxVehicles vehicles
onVehicleSpawned(data) == onVehicleSpawnedUpTo(data, MaxVehicles, MaxCount)

\* handler of vehicle:removed
onVehicleRemoved(data) ==
    /\ vehicleCount > -MaxDeficit
    /\ vehicles' = FilterOutId(vehicles, data.vehicleId)
    /\ vehicleCount' = vehicleCount - 1
    /\ lastOp' = Op("vehicle:removed", data.vehicleId)
    /\ UNCHANGED <<junctions, roads, shotVars, connVars, restVars>>

(***************************************************************************)
(* Object identity                                                         *)
(***************************************************************************)
Refs(s) == {s[i].ref : i \in 1..Len(s)}

\* identities of the junction / road objects still reachable from the store or a reader
LiveJunctionRefs == Refs(junctions) \cup Refs(shotJunctions)
LiveRoadRefs == Refs(roads) \cup Refs(shotRoads)

\* the k-th identity not in use
NthFree(used, k) ==
    CHOOSE r \in 1..(Cardinality(used) + k) :
        /\ r \notin used
        /\ Cardinality({x \in 1..r : x \notin used}) = k

\* array.map(e => e.id === id ? { ...e, ...change } : e) : a new object, built[i],
\* for every element with the id, the same object for the others
MapReplace(s, used, id, built) ==
    [i \in 1..Len(s) |->
        IF s[i].id = id
        THEN Spread(built[i],
                    [ref |-> NthFree(used, Cardinality({j \in 1..i : s[j].id = id}))])
        ELSE s[i]]

\* obj.field = value, seen through every array that holds the object
AssignInPlace(s, ref, delta) ==
    [i \in 1..Len(s) |-> IF s[i].ref = ref THEN Spread(s[i], delta) ELSE s[i]]

\* objects parsed from a REST response: all new
Allocate(s, used) ==
    [i \in 1..Len(s) |-> Spread(s[i], [ref |-> NthFree(used, i)])]

\* Identities are only ever compared, so the reachable objects are renumbered
\* after every step by their first position in store array \o reader array.
RefRank(order, r) == CHOOSE i \in 1..Len(order) :
                        /\ order[i].ref = r
                        /\ \A j \in 1..(i - 1) : order[j].ref # r

Renumber(s, order) ==
    [i \in 1..Len(s) |-> Spread(s[i], [ref |-> RefRank(order, s[i].ref)])]

\* the junction arrays after a step: the store's, the reader's, the reader's copy
PublishJunctions(js, shot, shotAt) ==
    /\ junctions' = Renumber(js, js \o shot)
    /\ shotJunctions' = Renumber(shot, js \o shot)
    /\ shotJunctionsAt' = Renumber(shotAt, js \o shot)

\* the road arrays after a step
PublishRoads(rs, shot, shotAt) ==
    /\ roads' = Renumber(rs, rs \o shot)
    /\ shotRoads' = Renumber(shot, rs \o shot)
    /\ shotRoadsAt' = Renumber(shotAt, rs \o shot)

junctionVars == <<junctions, shotJunctions, shotJunctionsAt>>
roadVars == <<roads, shotRoads, shotRoadsAt>>

(***************************************************************************)
(* Junctions                                                               *)
(***************************************************************************)
SignalState(c) == [current |-> c, duration |-> 10, lastChange |-> 0, timeSinceGreen |-> 0]

ApiJunction(id, dirs) ==
    [id |-> id, ref |-> 0,
     signals |-> [d \in dirs |->
                    IF d \in {"north", "south"} THEN SignalState("GREEN") ELSE SignalState("RED")],
     lastSignalChange |-> 0]

\* the second topology carries partial direction data for J2
JunctionSnapshots ==
    { <<ApiJunction("J1", Directions)>>,
      <<ApiJunction("J1", Directions), ApiJunction("J2", Directions \ {"west"})>> }

SignalChangeInputs ==
    { [junctionId |-> j, direction |-> d, newState |-> c, duration |-> 30, timestamp |-> 5] :
        j \in JunctionIds \cup {UnknownJunctionId}, d \in ChangedDirections,
        c \in {"RED", "GREEN"} }

\* Date.now() / 1000 as read by the store
Clock == {9}

\* store.updateJunctions(junctions)
updateJunctions(js) ==
    /\ PublishJunctions(js, shotJunctions, shotJunctionsAt)
    /\ lastOp' = Op("updateJunctions", NoId)
    /\ UNCHANGED <<vehicles, vehicleCount, roadVars, connVars, restVars>>

\* store.updateJunctionSignal(junctionId, direction, signalState)
updateJunctionSignal(junctionId, direction, signalState, now) ==
    /\ PublishJunctions(
         MapReplace(junctions, LiveJunctionRefs, junctionId,
            [i \in 1..Len(junctions) |->
               LET j == junctions[i]
               IN  Spread(j,
                     [signals |-> Spread(j.signals,
                        [x \in {direction} |->
                           Spread(IF direction \in DOMAIN j.signals
                                  THEN j.signals[direction]
                                  ELSE [x2 \in {} |-> x2],
                                  [current |-> signalState, lastChange |-> now])])])]),
         shotJunctions, shotJunctionsAt)
    /\ lastOp' = Op("updateJunctionSignal", junctionId)
    /\ UNCHANGED <<vehicles, vehicleCount, roadVars, connVars, restVars>>

\* signal:change handled by assigning a signals object that holds the changed
\* direction only
onSignalChangeDropping(data) ==
    /\ LET k == FindIndex(junctions, data.junctionId)
           hit == k # 0 /\ data.direction \in DOMAIN junctions[k].signals
           delta == [signals |->
                        [x \in {data.direction} |->
                           Spread(junctions[k].signals[data.direction],
                                  [current |-> data.newState,
                                   duration |-> data.duration,
                                   lastChange |-> data.timestamp])],
                     lastSignalChange |-> data.timestamp]
       IN  IF hit
           THEN PublishJunctions(AssignInPlace(junctions, junctions[k].ref, delta),
                                 AssignInPlace(shotJunctions, junctions[k].ref, delta),
                                 shotJunctionsAt)
           ELSE PublishJunctions(junctions, shotJunctions, shotJunctionsAt)
    /\ lastOp' = Op("signal:change", data.junctionId)
    /\ UNCHANGED <<vehicles, vehicleCount, roadVars, connVars, restVars>>

\* handler of signal:change : assigns to the junction object found in the array
onSignalChange(data) ==
    /\ LET k == FindIndex(junctions, data.junctionId)
           hit == k # 0 /\ data.direction \in DOMAIN junctions[k].signals
           delta == [signals |-> Spread(junctions[k].signals,
                        [x \in {data.direction} |->
                           Spread(junctions[k].signals[data.direction],
                                  [current |-> data.newState,
                                   duration |-> data.duration,
                                   lastChange |-> data.timestamp])]),
                     lastSignalChange |-> data.timestamp]
       IN  IF hit
           THEN PublishJunctions(AssignInPlace(junctions, junctions[k].ref, delta),
                                 AssignInPlace(shotJunctions, junctions[k].ref, delta),
                                 shotJunctionsAt)
           ELSE PublishJunctions(junctions, shotJunctions, shotJunctionsAt)
    /\ lastOp' = Op("signal:change", data.junctionId)
    /\ UNCHANGED <<vehicles, vehicleCount, roadVars, connVars, restVars>>

(***************************************************************************)
(* Roads                                                                   *)
(***************************************************************************)
\* Array(n).fill('')
FilledArray(n) == [i \in 1..n |-> ""]

ApiRoad(id) ==
    [id |-> id, ref |-> 0,
     traffic |-> [currentVehicles |-> <<>>, capacity |-> 20, density |-> "LOW",
                  densityScore |-> 10, speedLimit |-> 50],
     lastUpdate |-> 0]

RoadSnapshots ==
    { <<ApiRoad("R1")>>,
      <<ApiRoad("R1"), ApiRoad("R2")>> }

DensityInputs ==
    { [roadId |-> r, densityScore |-> c[1], classification |-> c[2], vehicleCount |-> c[3],
       timestamp |-> 6] :
        r \in RoadIds \cup {UnknownRoadId}, c \in {<<55, "MEDIUM", 1>>, <<90, "HIGH", 2>>} }

DensityBatchInputs ==
    { b \in UNION { [1..n -> DensityInputs] : n \in 1..MaxBatch } : TRUE }

\* store.updateRoads(roads)
updateRoads(rs) ==
    /\ PublishRoads(rs, shotRoads, shotRoadsAt)
    /\ lastOp' = Op("updateRoads", NoId)
    /\ UNCHANGED <<vehicles, vehicleCount, junctionVars, connVars, restVars>>

\* store.updateRoadDensity(roadId, densityScore, classification, vehicleCount)
updateRoadDensity(roadId, densityScore, classification, count) ==
    /\ PublishRoads(
         MapReplace(roads, LiveRoadRefs, roadId,
            [i \in 1..Len(roads) |->
               LET r == roads[i]
               IN  Spread(r,
                     [traffic |-> Spread(r.traffic,
                        [densityScore |-> densityScore,
                         density |-> classification,
                         currentVehicles |-> FilledArray(count)])])]),
         shotRoads, shotRoadsAt)
    /\ lastOp' = Op("updateRoadDensity", roadId)
    /\ UNCHANGED <<vehicles, vehicleCount, junctionVars, connVars, restVars>>

\* handler of density:update : assigns to the road object found in the array
onDensityUpdate(data) ==
    /\ LET k == FindIndex(roads, data.roadId)
           delta == [traffic |-> Spread(roads[k].traffic,
                        [densityScore |-> data.densityScore,
                         density |-> data.classification,
                         currentVehicles |-> FilledArray(data.vehicleCount)]),
                     lastUpdate |-> data.timestamp]
       IN  IF k # 0
           THEN PublishRoads(AssignInPlace(roads, roads[k].ref, delta),
                             AssignInPlace(shotRoads, roads[k].ref, delta),
                             shotRoadsAt)
           ELSE PublishRoads(roads, shotRoads, shotRoadsAt)
    /\ lastOp' = Op("density:update", data.roadId)
    /\ UNCHANGED <<vehicles, vehicleCount, junctionVars, connVars, restVars>>

RECURSIVE ApplyDensityBatch(_, _, _, _)
\* the for-loop of the density:batch_update handler over a map held as a
\* sequence with unique ids; every hit puts a new object into the map
ApplyDensityBatch(m, updates, n, used) ==
    IF n > Len(updates) THEN m
    ELSE LET update == updates[n]
             k == FindIndex(m, update.roadId)
             fresh == NthFree(used \cup Refs(m), 1)
         IN  IF k # 0
             THEN ApplyDensityBatch(
                    [m EXCEPT ![k] = Spread(m[k],
                       [traffic |-> Spread(m[k].traffic,
                           [densityScore |-> update.densityScore,
                            density |-> update.classification,
                            currentVehicles |-> FilledArray(update.vehicleCount)]),
                        lastUpdate |-> update.timestamp,
                        ref |-> fresh])],
                    updates, n + 1, used)
             ELSE ApplyDensityBatch(m, updates, n + 1, used)

\* handler of density:batch_update
onDensityBatchUpdate(data) ==
    /\ PublishRoads(ApplyDensityBatch(MapValues(roads), data, 1, LiveRoadRefs),
                    shotRoads, shotRoadsAt)
    /\ lastOp' = Op("density:batch_update", NoId)
    /\ UNCHANGED <<vehicles, vehicleCount, junctionVars, connVars, restVars>>

(***************************************************************************)
(* A reader of the store (the map component's render callback)             *)
(***************************************************************************)
\* const { vehicles, junctions, roads } = useSystemStore()
ReaderCapture ==
    /\ PublishJunctions(junctions, junctions, junctions)
    /\ PublishRoads(roads, roads, roads)
    /\ lastOp' = Op("capture", NoId)
    /\ UNCHANGED <<vehicles, vehicleCount, connVars, restVars>>

(***************************************************************************)
(* Transport: WebSocketService over a socket.io client socket              *)
(*                                                                         *)
(* The socket is created with autoConnect and with automatic reconnection  *)
(* limited to _maxReconnectAttempts retries.  `sock` is the phase of the   *)
(* socket: "closed", "opening" (an attempt is in flight), "handshake"      *)
(* (the engine is open, the namespace connect is awaited), "open".         *)
(* `reconnecting` with sock = "closed" means a retry timer is pending.     *)
(***************************************************************************)
maxReconnectAttempts == 5

ConnectionStatus == {"connected", "disconnected", "connecting", "error"}

\* socket.on('connect')
onConnect ==
    /\ sock = "handshake"
    /\ sock' = "open"
    /\ status' = "connected"
    /\ reconnectAttempts' = 0
    /\ ack' = IF ack = "buffered" THEN "awaited" ELSE ack
    /\ lastOp' = Op("connect", NoId)
    /\ UNCHANGED <<backoffAttempts, reconnecting, exhausted, socketLevelEvents,
                   storeVars, shotVars, emitted, promise, subVars, pageVars>>

\* a disconnect handler that also resets the store's entities
onDisconnectClearing ==
    /\ sock \in {"handshake", "open"}
    /\ sock' = "closed"
    /\ status' = "disconnected"
    /\ reconnecting' = TRUE
    /\ backoffAttempts' = 1
    /\ lastOp' = Op("disconnect", NoId)
    /\ vehicles' = <<>>
    /\ vehicleCount' = 0
    /\ PublishJunctions(<<>>, shotJunctions, shotJunctionsAt)
    /\ PublishRoads(<<>>, shotRoads, shotRoadsAt)
    /\ ack' = IF ack = "awaited" THEN "lost" ELSE ack
    /\ UNCHANGED <<reconnectAttempts, exhausted, socketLevelEvents, emitted, promise, subVars, pageVars>>

\* socket.on('disconnect') : the connection dropped; the manager schedules a retry
onDisconnect ==
    /\ sock \in {"handshake", "open"}
    /\ sock' = "closed"
    /\ status' = "disconnected"
    /\ reconnecting' = TRUE
    /\ backoffAttempts' = 1
    /\ ack' = IF ack = "awaited" THEN "lost" ELSE ack
    /\ lastOp' = Op("disconnect", NoId)
    /\ UNCHANGED <<reconnectAttempts, exhausted, socketLevelEvents, storeVars, shotVars,
                   emitted, promise, subVars, pageVars>>

\* socket.on('connect_error') : an attempt failed; the manager schedules the next
\* retry, or gives up once reconnectionAttempts retries of the series are used
onConnectError ==
    /\ sock = "opening"
    /\ reconnectAttempts < AttemptsCap
    /\ sock' = "closed"
    /\ status' = "error"
    /\ reconnectAttempts' = reconnectAttempts + 1
    /\ IF reconnecting /\ backoffAttempts >= maxReconnectAttempts
       THEN /\ reconnecting' = FALSE
            /\ backoffAttempts' = 0
            /\ exhausted' = TRUE
       ELSE /\ reconnecting' = TRUE
            /\ backoffAttempts' = backoffAttempts + 1
            /\ UNCHANGED exhausted
    /\ lastOp' = Op("connect_error", NoId)
    /\ UNCHANGED <<socketLevelEvents, storeVars, shotVars, restVars>>

\* socket.on('reconnect_attempt') : the retry timer fired and an attempt starts;
\* the handler runs only where the event is delivered on the socket
onReconnectAttempt ==
    /\ sock = "closed"
    /\ reconnecting
    /\ sock' = "opening"
    /\ status' = IF socketLevelEvents THEN "connecting" ELSE status
    /\ lastOp' = Op("reconnect_attempt", NoId)
    /\ UNCHANGED <<reconnectAttempts, backoffAttempts, reconnecting, exhausted,
                   socketLevelEvents, storeVars, shotVars, restVars>>

\* socket.on('reconnect') : the engine opened; after a retry the manager reports
\* the reconnection, and the handler runs only where the event is delivered on
\* the socket
onReconnect ==
    /\ sock = "opening"
    /\ sock' = "handshake"
    /\ status' = IF reconnecting /\ socketLevelEvents THEN "connected" ELSE status
    /\ reconnecting' = FALSE
    /\ backoffAttempts' = 0
    /\ lastOp' = Op(IF reconnecting THEN "reconnect" ELSE "open", NoId)
    /\ UNCHANGED <<reconnectAttempts, exhausted, socketLevelEvents, storeVars, shotVars, restVars>>

\* WebSocketService.connect()
connect ==
    /\ IF sock = "closed" /\ ~reconnecting
       THEN /\ sock' = "opening"
            /\ exhausted' = FALSE
       ELSE UNCHANGED <<sock, exhausted>>
    /\ lastOp' = Op("connect()", NoId)
    /\ UNCHANGED <<status, reconnectAttempts, backoffAttempts, reconnecting,
                   socketLevelEvents, storeVars, shotVars, restVars>>

\* WebSocketService.disconnect()
disconnect ==
    /\ sock' = "closed"
    /\ reconnecting' = FALSE
    /\ backoffAttempts' = 0
    /\ status' = "disconnected"
    /\ ack' = IF ack = "awaited" THEN "lost" ELSE ack
    /\ lastOp' = Op("disconnect()", NoId)
    /\ UNCHANGED <<reconnectAttempts, exhausted, socketLevelEvents, storeVars, shotVars,
                   emitted, promise, subVars, pageVars>>

(***************************************************************************)
(* WebSocketService: outbound messages (part_001)                          *)
(*                                                                         *)
(* `emitted` records the calls of socket.emit made by the service, in      *)
(* order.  What socket.io does with a message it was handed is outside the *)
(* service.                                                                *)
(***************************************************************************)
emitVars == <<storeVars, shotVars, connVars, subVars, pageVars>>

Message(event, data) == [event |-> event, data |-> data]

\* emit() without the status test
emitUnguarded(event, data) ==
    /\ Len(emitted) < MaxEmitted
    /\ emitted' = Append(emitted, Message(event, data))
    /\ lastOp' = Op("emit", event)
    /\ UNCHANGED <<emitVars, promise, ack>>

\* WebSocketService.emit(event, data)
emit(event, data) ==
    /\ Len(emitted) < MaxEmitted
    /\ IF status # "connected"
       THEN UNCHANGED emitted
       ELSE emitted' = Append(emitted, Message(event, data))
    /\ lastOp' = Op("emit", event)
    /\ UNCHANGED <<emitVars, promise, ack>>

\* the client -> server helpers
controlSimulation(action, now) ==
    emit("simulation:control", [action |-> action, timestamp |-> now])

spawnVehicle(type, spawnPoint, destination) ==
    emit("vehicle:spawn", [type |-> type, spawnPoint |-> spawnPoint,
                           destination |-> destination])

overrideSignal(junctionId, direction, action, duration) ==
    emit("signal:override", [junctionId |-> junctionId, direction |-> direction,
                             action |-> action, duration |-> duration])

triggerEmergency(spawnPoint, destination) ==
    emit("emergency:trigger", [spawnPoint |-> spawnPoint, destination |-> destination])

clearEmergency(vehicleId) ==
    emit("emergency:clear", [vehicleId |-> vehicleId])

loadMap(method, parameters) ==
    emit("map:load:request", [method |-> method, parameters |-> parameters])

changeTrafficMode(newMode, provider) ==
    emit("traffic:mode:change", [mode |-> newMode, provider |-> provider])

setTrafficOverride(roadId, congestionLevel, duration) ==
    emit("traffic:override:set", [roadId |-> roadId, congestionLevel |-> congestionLevel,
                                  duration |-> duration])

clearTrafficOverride(roadId) ==
    emit("traffic:override:clear", [roadId |-> roadId])

subscribe(channels) ==
    emit("subscribe:updates", [channels |-> channels])

unsubscribe(channels) ==
    emit("unsubscribe:updates", [channels |-> channels])

\* Responses of the server to a message sent with an acknowledgement callback
\* (an absent response has present = FALSE)
AckResponses ==
    { [present |-> TRUE, error |-> "denied"],
      [present |-> TRUE, error |-> Undef],
      [present |-> FALSE, error |-> Undef] }

\* response?.error
ResponseError(response) ==
    IF ~response.present THEN Undef ELSE response.error

\* WebSocketService.emitWithAck(event, data) : the promise is rejected at once when
\* the status is not 'connected'; otherwise the message is handed to the socket
\* together with the callback that settles the promise.  A socket that is not
\* connected keeps the message and sends it when it connects.
emitWithAck(event, data) ==
    /\ promise # "pending"
    /\ Len(emitted) < MaxEmitted
    /\ IF status # "connected"
       THEN /\ promise' = "rejected"
            /\ UNCHANGED <<emitted, ack>>
       ELSE /\ promise' = "pending"
            /\ emitted' = Append(emitted, Message(event, data))
            /\ ack' = IF sock = "open" THEN "awaited" ELSE "buffered"
    /\ lastOp' = Op("emitWithAck", event)
    /\ UNCHANGED emitVars

\* the acknowledgement callback given to socket.emit : the server answered on the
\* connection the message was sent on
onAck(response) ==
    /\ promise = "pending"
    /\ ack = "awaited"
    /\ promise' = IF ResponseError(response) # Undef THEN "rejected" ELSE "resolved"
    /\ ack' = "none"
    /\ lastOp' = Op("ack", IF ResponseError(response) # Undef THEN "error" ELSE "ok")
    /\ UNCHANGED <<emitVars, emitted>>

\* the calls explored: one direct emit and one call of each helper
EmitCalls == { Message("custom:event", [x |-> "1"]) }

Channels == <<"vehicles", "signals">>

(***************************************************************************)
(* WebSocketService: subscriptions (part_001)                              *)
(*                                                                         *)
(* The socket keeps the callbacks of an event in an array: on appends, so  *)
(* a callback registered twice is held twice, and off(event, callback)     *)
(* removes its first occurrence.  The service's own registry is a Set per  *)
(* event.  The events explored are application events; the base listeners  *)
(* of the service are put back by _setupBaseListeners.                     *)
(***************************************************************************)
SubEvents == {"vehicle:update", "signal:change"}
\* the event names the socket holds callbacks for
InboundEvents == SubEvents \cup {"vehicle:spawned"}
Callbacks == {"h1", "h2"}

subFrame == <<storeVars, shotVars, connVars, emitted, promise, ack, pageVars>>

Range(s) == {s[i] : i \in 1..Len(s)}

\* Emitter.off(event, fn) : the first occurrence of fn is spliced out
RemoveFirst(s, fn) ==
    IF fn \notin Range(s)
    THEN s
    ELSE LET i == CHOOSE k \in 1..Len(s) :
                      s[k] = fn /\ \A j \in 1..(k - 1) : s[j] # fn
         IN  SubSeq(s, 1, i - 1) \o SubSeq(s, i + 1, Len(s))

\* WebSocketService.on(event, callback) : returns the unsubscribe function
on(event, callback) ==
    /\ Len(attached[event]) < MaxAttached
    /\ attached' = [attached EXCEPT ![event] = Append(@, callback)]
    /\ listeners' = [listeners EXCEPT ![event] = @ \cup {callback}]
    /\ unsubs' = unsubs \cup {<<event, callback>>}
    /\ lastOp' = Op("on", event)
    /\ UNCHANGED subFrame

\* WebSocketService.off(event, callback)
off(event, callback) ==
    /\ attached' = [attached EXCEPT ![event] = RemoveFirst(@, callback)]
    /\ listeners' = [listeners EXCEPT ![event] = @ \ {callback}]
    /\ lastOp' = Op("off", event)
    /\ UNCHANGED <<unsubs, subFrame>>

\* the function returned by on(event, callback) : () => this.off(event, callback)
callUnsubscribe(event, callback) ==
    /\ <<event, callback>> \in unsubs
    /\ off(event, callback)

\* WebSocketService.removeAllListeners(event)
removeAllListenersOf(event) ==
    /\ attached' = [attached EXCEPT ![event] = <<>>]
    /\ listeners' = [listeners EXCEPT ![event] = {}]
    /\ lastOp' = Op("removeAllListeners", event)
    /\ UNCHANGED <<unsubs, subFrame>>

\* WebSocketService.removeAllListeners()
removeAllListeners ==
    /\ attached' = [e \in InboundEvents |-> <<>>]
    /\ listeners' = [e \in InboundEvents |-> {}]
    /\ lastOp' = Op("removeAllListeners", NoId)
    /\ UNCHANGED <<unsubs, subFrame>>

(***************************************************************************)
(* Demo mode (data/mockData.ts, hooks/useDemoMode in part_004, Dashboard   *)
(* in part_012)                                                            *)
(*                                                                         *)
(* Junction and road coordinates are canvas pixels as in mockData.ts.  A   *)
(* demo vehicle moves by speed / 100 pixels per tick, so its position is   *)
(* kept in units of 1 / PerPixel pixel.  Math.random is a choice from a    *)
(* small set at every call.                                                *)
(***************************************************************************)
PerPixel == 10

\* Date.now() / 1000 when mockData.ts was loaded
LoadTime == 0

\* createSignalState(current, duration)
createSignalState(current, duration) ==
    [current |-> current, duration |-> duration, lastChange |-> LoadTime,
     timeSinceGreen |-> IF current = "GREEN" THEN 0 ELSE duration]

\* one entry of mockJunctions: north / south share a state, east / west the other
MockJunction(id, x, y, ns, nsDuration, ew, ewDuration) ==
    [id |-> id, ref |-> 0, position |-> [x |-> x, y |-> y],
     signals |-> [d \in Directions |->
                    IF d \in {"north", "south"}
                    THEN createSignalState(ns, nsDuration)
                    ELSE createSignalState(ew, ewDuration)],
     lastSignalChange |-> LoadTime]

\* mockJunctions : the 3 x 3 grid
mockJunctions ==
    <<
       MockJunction("J-001", 150, 150, "RED", 30, "GREEN", 25),
       MockJunction("J-002", 375, 150, "GREEN", 20, "RED", 35),
       MockJunction("J-003", 600, 150, "RED", 30, "GREEN", 25),
       MockJunction("J-004", 150, 300, "GREEN", 25, "RED", 30),
       MockJunction("J-005", 375, 300, "RED", 35, "GREEN", 20),
       MockJunction("J-006", 600, 300, "GREEN", 25, "RED", 30),
       MockJunction("J-007", 150, 450, "RED", 30, "GREEN", 25),
       MockJunction("J-008", 375, 450, "GREEN", 20, "RED", 35),
       MockJunction("J-009", 600, 450, "RED", 30, "GREEN", 25)
    >>

\* one entry of mockRoads
MockRoad(id, x1, y1, x2, y2, length, capacity, density, densityScore, speedLimit) ==
    [id |-> id, ref |-> 0,
     geometry |-> [startPos |-> [x |-> x1, y |-> y1], endPos |-> [x |-> x2, y |-> y2],
                   length |-> length, lanes |-> 2],
     traffic |-> [currentVehicles |-> <<>>, capacity |-> capacity, density |-> density,
                  densityScore |-> densityScore, speedLimit |-> speedLimit],
     lastUpdate |-> LoadTime]

\* mockRoads
mockRoads ==
    <<
       MockRoad("R-001", 150, 50, 150, 125, 75, 20, "LOW", 25, 40),
       MockRoad("R-004", 150, 175, 150, 275, 100, 20, "MEDIUM", 45, 40),
       MockRoad("R-010", 150, 325, 150, 425, 100, 20, "LOW", 22, 40),
       MockRoad("R-002", 375, 50, 375, 125, 75, 20, "LOW", 30, 40),
       MockRoad("R-005", 375, 175, 375, 275, 100, 20, "HIGH", 72, 40),
       MockRoad("R-011", 375, 325, 375, 425, 100, 20, "MEDIUM", 48, 40),
       MockRoad("R-003", 600, 50, 600, 125, 75, 20, "LOW", 18, 40),
       MockRoad("R-006", 600, 175, 600, 275, 100, 20, "LOW", 25, 40),
       MockRoad("R-013", 600, 325, 600, 425, 100, 20, "LOW", 15, 40),
       MockRoad("R-007", 175, 150, 350, 150, 175, 25, "MEDIUM", 55, 50),
       MockRoad("R-008", 400, 150, 575, 150, 175, 25, "LOW", 32, 50),
       MockRoad("R-009", 175, 300, 350, 300, 175, 25, "HIGH", 68, 50),
       MockRoad("R-012", 400, 300, 575, 300, 175, 25, "MEDIUM", 42, 50),
       MockRoad("R-014", 175, 450, 350, 450, 175, 25, "LOW", 28, 50),
       MockRoad("R-015", 400, 450, 575, 450, 175, 25, "LOW", 20, 50)
    >>

\* Math.atan2(dy, dx) * (180 / Math.PI) ; every road of mockRoads runs along an axis
Atan2Degrees(dy, dx) ==
    IF dy = 0 THEN (IF dx >= 0 THEN 0 ELSE 180)
    ELSE IF dy > 0 THEN 90 ELSE -90

\* heading from a road's start to its end
RoadHeading(road) ==
    Atan2Degrees(road.geometry.endPos.y - road.geometry.startPos.y,
                 road.geometry.endPos.x - road.geometry.startPos.x)

\* Math.cos / Math.sin of a heading along an axis
CosDegrees(h) == IF h = 0 THEN 1 ELSE IF h = 180 THEN -1 ELSE 0
SinDegrees(h) == IF h = 90 THEN 1 ELSE IF h = -90 THEN -1 ELSE 0

\* the ids generateMockVehicles gives: V-001 ...
MockVehicleId ==
    << "V-001", "V-002", "V-003", "V-004", "V-005", "V-006", "V-007",
       "V-008", "V-009", "V-010", "V-011", "V-012", "V-013", "V-014",
       "V-015", "V-016", "V-017", "V-018", "V-019", "V-020", "V-021",
       "V-022", "V-023", "V-024", "V-025", "V-026", "V-027", "V-028",
       "V-029", "V-030", "V-031", "V-032", "V-033", "V-034", "V-035" >>

\* generateMockVehicles(35)
SeededVehicles == 35

\* the types array generateMockVehicles picks from
MockTypes == <<"car", "car", "car", "car", "car", "car", "car", "bike", "bike", "ambulance">>

\* the vehicle generateMockVehicles builds for index i, given what Math.random
\* returned: the type index, the road index and the progress num / den along the
\* road, and the speed
MockVehicle(i, typeIndex, roadIndex, num, den, speed) ==
    LET road == mockRoads[roadIndex]
        g == road.geometry
    IN  [id |-> MockVehicleId[i],
         type |-> MockTypes[typeIndex],
         position |->
            [x |-> g.startPos.x * PerPixel
                     + ((g.endPos.x - g.startPos.x) * PerPixel * num) \div den,
             y |-> g.startPos.y * PerPixel
                     + ((g.endPos.y - g.startPos.y) * PerPixel * num) \div den],
         speed |-> speed,
         heading |-> RoadHeading(road),
         currentRoad |-> road.id,
         isEmergency |-> (MockTypes[typeIndex] = "ambulance"),
         spawnTime |-> LoadTime,
         lastUpdate |-> LoadTime]

\* outcomes of generateMockVehicles(35) explored: cars at the start of the roads
\* in turn, and mixed types half way along scattered roads
mockVehicles ==
    [i \in 1..SeededVehicles |->
        MockVehicle(i, 1, ((i - 1) % Len(mockRoads)) + 1, 0, 1, 20)]

midwayVehicles ==
    [i \in 1..SeededVehicles |->
        MockVehicle(i, ((i - 1) % Len(MockTypes)) + 1, ((7 * i) % Len(mockRoads)) + 1,
                    1, 2, 40)]

MockVehicleSeeds == {mockVehicles, midwayVehicles}

\* the road a respawning vehicle gets and its new speed, as Math.random decides
RespawnChoices == { [road |-> r, speed |-> 20] : r \in {1, Len(mockRoads)} }

\* mockRoads.find(r => r.id === vehicle.currentRoad), 0 when there is none
FindRoadIndex(roadId) == SeqIndexOf(mockRoads, roadId, 1)

\* the position animateMockVehicles computes for a vehicle before the bounds test
Advanced(vehicle) ==
    [x |-> vehicle.position.x + CosDegrees(vehicle.heading) * (vehicle.speed \div PerPixel),
     y |-> vehicle.position.y + SinDegrees(vehicle.heading) * (vehicle.speed \div PerPixel)]

\* newX < 50 || newX > 700 || newY < 50 || newY > 550
OutOfBounds(pos) ==
    \/ pos.x < 50 * PerPixel
    \/ pos.x > 700 * PerPixel
    \/ pos.y < 50 * PerPixel
    \/ pos.y > 550 * PerPixel

\* the vehicles animateMockVehicles respawns
Respawning(vs) ==
    { i \in 1..Len(vs) : FindRoadIndex(vs[i].currentRoad) # 0 /\ OutOfBounds(Advanced(vs[i])) }

\* the animation without the boundary reset
animateMockVehiclesOnward(vs, pick, now) ==
    [i \in 1..Len(vs) |->
        IF FindRoadIndex(vs[i].currentRoad) = 0
        THEN vs[i]
        ELSE Spread(vs[i], [position |-> Advanced(vs[i]), lastUpdate |-> now])]

\* animateMockVehicles(vehicles), with pick[i] the random choice for a respawn
animateMockVehicles(vs, pick, now) ==
    [i \in 1..Len(vs) |->
        IF FindRoadIndex(vs[i].currentRoad) = 0
        THEN vs[i]
        ELSE IF OutOfBounds(Advanced(vs[i]))
        THEN LET newRoad == mockRoads[pick[i].road]
             IN  Spread(vs[i],
                    [position |-> [x |-> newRoad.geometry.startPos.x * PerPixel,
                                   y |-> newRoad.geometry.startPos.y * PerPixel],
                     heading |-> RoadHeading(newRoad),
                     currentRoad |-> newRoad.id,
                     speed |-> pick[i].speed])
        ELSE Spread(vs[i], [position |-> Advanced(vs[i]), lastUpdate |-> now])]

demoFrame == <<connVars, wireVars, mapVars, viewVars>>

\* what the REST endpoints answer
ApiPerformance == { [vehicleCount |-> n, avgDensity |-> 10, congestionPoints |-> 1,
                     throughput |-> 100, fps |-> 60] : n \in {0, MaxVehicles} }

\* Dashboard.fetchInitialData, every request answered: the four store updates
fetchInitialDataLoaded ==
    /\ fetchPc = "pending"
    /\ fetchPc' = "loaded"
    /\ \E vs \in VehicleSnapshots, js \in JunctionSnapshots, rs \in RoadSnapshots,
          state \in ApiPerformance :
          /\ vehicles' = vs
          /\ vehicleCount' = state.vehicleCount
          /\ \E built \in {Allocate(js, LiveJunctionRefs) \o <<>>} :
                PublishJunctions(built, shotJunctions, shotJunctionsAt)
          /\ \E built \in {Allocate(rs, LiveRoadRefs) \o <<>>} :
                PublishRoads(built, shotRoads, shotRoadsAt)
          /\ perf' = [avgDensity |-> state.avgDensity,
                      congestionPoints |-> state.congestionPoints,
                      throughput |-> state.throughput, fps |-> state.fps]
    /\ lastOp' = Op("fetch:loaded", NoId)
    /\ UNCHANGED <<mounted, demoMode, intervalOn, vehiclesRef, timeRef, simulationTime,
                   isRunning, demoFrame>>

\* a catch block that only logs
fetchInitialDataSwallowed ==
    /\ fetchPc = "pending"
    /\ fetchPc' = "failed"
    /\ lastOp' = Op("fetch:failed", NoId)
    /\ UNCHANGED <<mounted, demoMode, intervalOn, vehiclesRef, timeRef, simulationTime,
                   isRunning, perf, storeVars, shotVars, demoFrame>>

\* Dashboard.fetchInitialData, the health check or a request rejected: the catch
\* block enables demo mode (a state update of an unmounted component is dropped)
fetchInitialDataFailed ==
    /\ fetchPc = "pending"
    /\ fetchPc' = "failed"
    /\ demoMode' = IF mounted THEN TRUE ELSE demoMode
    /\ lastOp' = Op("fetch:failed", NoId)
    /\ UNCHANGED <<mounted, intervalOn, vehiclesRef, timeRef, simulationTime,
                   isRunning, perf, storeVars, shotVars, demoFrame>>

\* initializeDemoData without the roads
initializeDemoDataNoRoads ==
    /\ \E js \in {Allocate(mockJunctions, LiveJunctionRefs) \o <<>>} :
          PublishJunctions(js, shotJunctions, shotJunctionsAt)
    /\ UNCHANGED roadVars
    /\ vehicles' = vehiclesRef
    /\ vehicleCount' = Len(vehiclesRef)
    /\ perf' = [avgDensity |-> 42, congestionPoints |-> 2, throughput |-> 850, fps |-> 60]

\* useDemoMode.initializeDemoData : updateJunctions, updateRoads, updateVehicles,
\* updatePerformance
initializeDemoData ==
    /\ \E js \in {Allocate(mockJunctions, LiveJunctionRefs) \o <<>>} :
          PublishJunctions(js, shotJunctions, shotJunctionsAt)
    /\ \E rs \in {Allocate(mockRoads, LiveRoadRefs) \o <<>>} :
          PublishRoads(rs, shotRoads, shotRoadsAt)
    /\ vehicles' = vehiclesRef
    /\ vehicleCount' = Len(vehiclesRef)
    /\ perf' = [avgDensity |-> 42, congestionPoints |-> 2, throughput |-> 850, fps |-> 60]

\* useDemoMode's effect once enabled: seed the store, mark the simulation
\* running, start the interval
useDemoModeEffect ==
    /\ mounted
    /\ demoMode
    /\ ~intervalOn
    /\ initializeDemoData
    /\ isRunning' = TRUE
    /\ intervalOn' = TRUE
    /\ lastOp' = Op("demo:start", NoId)
    /\ UNCHANGED <<mounted, fetchPc, demoMode, vehiclesRef, timeRef, simulationTime,
                   demoFrame>>

\* what Math.random gives the tick for the performance figures
PerformanceChoices ==
    { [avgDensity |-> 35, congestionPoints |-> 0, throughput |-> 800],
      [avgDensity |-> 59, congestionPoints |-> 3, throughput |-> 999] }

\* the sets of junction indexes for which Math.random() > 0.7 came out true
ToggleChoices == { {}, {1}, {k \in 1..9 : k % 2 = 0}, 1..9 }

\* the toggle applied to the north / south pair only
ToggledNorthSouth(junction, now) ==
    LET nsGreen == junction.signals.north.current = "GREEN"
    IN  Spread(junction,
           [signals |->
              [d \in Directions |->
                 Spread(junction.signals[d],
                    [current |-> IF d \in {"north", "south"}
                                 THEN (IF nsGreen THEN "RED" ELSE "GREEN")
                                 ELSE junction.signals[d].current])],
            lastSignalChange |-> now])

\* the junction the tick builds for one it changes
Toggled(junction, now) ==
    LET nsGreen == junction.signals.north.current = "GREEN"
    IN  Spread(junction,
           [signals |->
              [d \in Directions |->
                 Spread(junction.signals[d],
                    [current |-> IF d \in {"north", "south"}
                                 THEN (IF nsGreen THEN "RED" ELSE "GREEN")
                                 ELSE (IF nsGreen THEN "GREEN" ELSE "RED")])],
            lastSignalChange |-> now])

\* junctions.map(...) of the tick: a new object for every changed junction
ToggleJunctions(js, changed, used, now) ==
    [i \in 1..Len(js) |->
        IF i \in changed
        THEN Spread(Toggled(js[i], now),
                    [ref |-> NthFree(used, Cardinality({j \in 1..i : j \in changed}))])
        ELSE js[i]]

\* a tick that animates what the store holds
TickListOfStore == vehicles

\* the list a tick animates: vehiclesRef.current
TickList == vehiclesRef

\* useDemoMode.tick, run by the interval; at most cap ticks are explored.  The
\* recorded id tells whether the store's vehicles differed from the list.
tickUpTo(cap) ==
    /\ intervalOn
    /\ timeRef < cap
    /\ \E now \in Clock, pick \in [Respawning(TickList) -> RespawnChoices] :
          /\ vehiclesRef' = animateMockVehicles(TickList, pick, now)
          /\ vehicles' = vehiclesRef'
          /\ vehicleCount' = Len(vehiclesRef')
          /\ timeRef' = timeRef + 1
          /\ simulationTime' = timeRef'
          /\ IF timeRef' % 20 = 0
             THEN \E metrics \in PerformanceChoices : perf' = Spread(perf, metrics)
             ELSE UNCHANGED perf
          /\ IF timeRef' % 30 = 0
             THEN \E changed \in ToggleChoices :
                    \E js \in {ToggleJunctions(junctions, changed \cap (1..Len(junctions)),
                                                LiveJunctionRefs, now) \o <<>>} :
                        PublishJunctions(js, shotJunctions, shotJunctionsAt)
             ELSE UNCHANGED junctionVars
    /\ lastOp' = Op("tick", IF vehicles = vehiclesRef THEN NoId ELSE "overwrite")
    /\ UNCHANGED <<mounted, fetchPc, demoMode, intervalOn, isRunning, roadVars, demoFrame>>

\* the tick next to the transport's events
tick == tickUpTo(MaxTicks)

\* the tick of a long run of the simulator alone
intervalTick == tickUpTo(MaxRunTicks)

\* payloads of the live vehicle events explored next to the simulator: the
\* first simulated vehicle and one the simulator does not know
LivePosition == [x |-> 100 * PerPixel, y |-> 100 * PerPixel]

LiveVehicleIds == {MockVehicleId[1], "V1"}

LiveSpawnInputs ==
    { [vehicleId |-> "V1", type |-> t, position |-> LivePosition, timestamp |-> 4] :
        t \in {"car", "ambulance"} }

LiveUpdateInputs ==
    { [vehicleId |-> i, position |-> LivePosition, speed |-> 5, heading |-> 90,
       timestamp |-> 2, lat |-> Undef, lon |-> Undef] : i \in LiveVehicleIds }

\* the vehicle:spawned handler while the simulator runs: one vehicle more
\* than the simulator's is explored
liveVehicleSpawned(data) ==
    /\ intervalOn
    /\ onVehicleSpawnedUpTo(data, SeededVehicles + 1, SeededVehicles + 1)

\* the vehicle:update handler while the simulator runs
liveVehicleUpdate(data) ==
    /\ intervalOn
    /\ onVehicleUpdate(data)

\* the vehicle:removed handler while the simulator runs
liveVehicleRemoved(data) ==
    /\ intervalOn
    /\ onVehicleRemoved(data)

\* the Dashboard page is left: the effect's cleanup clears the interval
unmountDashboard ==
    /\ mounted
    /\ mounted' = FALSE
    /\ intervalOn' = FALSE
    /\ lastOp' = Op("unmount", NoId)
    /\ UNCHANGED <<fetchPc, demoMode, vehiclesRef, timeRef, simulationTime, isRunning, perf,
                   storeVars, shotVars, demoFrame>>

(***************************************************************************)
(* CityMap: the render loop (components/CityMap.tsx)                       *)
(*                                                                         *)
(* render draws the roads, junctions and vehicles its closure holds and    *)
(* then requests the next animation frame.  A callback runs to completion, *)
(* so a run of render is one step; an exception thrown while drawing ends  *)
(* the run before the request.  Every vehicle of the model has a position, *)
(* so the vehicle layer never throws.                                      *)
(***************************************************************************)
mapFrame == <<vehicles, vehicleCount, connVars, wireVars, demoVars, viewVars>>

\* drawRoads reads road.geometry.startPos / endPos / lanes and road.traffic.density
RoadDrawable(road) == "geometry" \in DOMAIN road /\ "traffic" \in DOMAIN road

\* drawJunctions reads junction.lat / lon, or else junction.position.x / y
JunctionDrawable(junction) ==
    \/ "lat" \in DOMAIN junction /\ "lon" \in DOMAIN junction
    \/ "position" \in DOMAIN junction

\* what render needs of the arrays in its closure
RoadClosure(rs) == [i \in 1..Len(rs) |-> [id |-> rs[i].id, ok |-> RoadDrawable(rs[i])]]
JunctionClosure(js) ==
    [i \in 1..Len(js) |-> [id |-> js[i].id, ok |-> JunctionDrawable(js[i])]]

\* forEach stops at the first element whose drawing throws: its index, 0 for none
FirstThrowing(s) ==
    IF \A i \in 1..Len(s) : s[i].ok
    THEN 0
    ELSE CHOOSE i \in 1..Len(s) : ~s[i].ok /\ \A j \in 1..(i - 1) : s[j].ok

IdsBefore(s, n) == [i \in 1..(n - 1) |-> s[i].id]
IdsOf(s) == [i \in 1..Len(s) |-> s[i].id]

NothingDrawn == [roads |-> <<>>, junctions |-> <<>>, threw |-> FALSE, parity |-> 0]

\* the layers of one run of render: drawRoads, then drawJunctions
Draw(rs, js, before) ==
    IF FirstThrowing(rs) # 0
    THEN [roads |-> IdsBefore(rs, FirstThrowing(rs)), junctions |-> <<>>, threw |-> TRUE,
          parity |-> 1 - before.parity]
    ELSE IF FirstThrowing(js) # 0
    THEN [roads |-> IdsOf(rs), junctions |-> IdsBefore(js, FirstThrowing(js)),
          threw |-> TRUE, parity |-> 1 - before.parity]
    ELSE [roads |-> IdsOf(rs), junctions |-> IdsOf(js), threw |-> FALSE,
          parity |-> 1 - before.parity]

\* requestAnimationFrame returns an id not in use
FreshFrameId(inUse) == CHOOSE id \in 1..(Cardinality(inUse) + 1) : id \notin inUse

\* render() with the arrays rs, js of its closure, the requests `others` pending
RenderWith(rs, js, others) ==
    /\ drawn' = Draw(rs, js, drawn)
    /\ IF drawn'.threw
       THEN /\ pending' = others
            /\ UNCHANGED animationRef
       ELSE /\ Cardinality(others) < MaxPending
            /\ animationRef' = FreshFrameId(others \cup {animationRef})
            /\ pending' = others \cup {animationRef'}

\* roads and junctions the REST snapshot may carry: the second road has no
\* geometry, the second junction neither position nor lat / lon
DrawnRoadSnapshots ==
    { <<mockRoads[1], mockRoads[2], mockRoads[3]>>,
      <<mockRoads[1], ApiRoad("R2"), mockRoads[3]>> }

DrawnJunctionSnapshots ==
    { <<mockJunctions[1], mockJunctions[2], mockJunctions[3]>>,
      <<mockJunctions[1], ApiJunction("J2", Directions), mockJunctions[3]>> }

LoadDrawnRoads ==
    \E rs \in DrawnRoadSnapshots : updateRoads(Allocate(rs, LiveRoadRefs))
LoadDrawnJunctions ==
    \E js \in DrawnJunctionSnapshots : updateJunctions(Allocate(js, LiveJunctionRefs))

\* React renders CityMap again: it reads the store's arrays and builds a new
\* render callback
rerenderCityMap ==
    /\ mapMounted
    /\ PublishJunctions(junctions, junctions, junctions)
    /\ PublishRoads(roads, roads, roads)
    /\ effectDue' = TRUE
    /\ lastOp' = Op("rerender", NoId)
    /\ UNCHANGED <<mapMounted, pending, animationRef, closureRoads, closureJunctions, drawn,
                   mapFrame>>

\* the effect without its cleanup
renderEffectNoCancel ==
    /\ mapMounted
    /\ effectDue
    /\ effectDue' = FALSE
    /\ closureRoads' = RoadClosure(shotRoads)
    /\ closureJunctions' = JunctionClosure(shotJunctions)
    /\ RenderWith(closureRoads', closureJunctions', pending)
    /\ mapMounted' = ~drawn'.threw
    /\ lastOp' = Op("effect", NoId)
    /\ UNCHANGED <<storeVars, shotVars, connVars, wireVars, demoVars, viewVars>>

\* the effect of [render]: the cleanup of the previous run cancels the request
\* in animationRef, then the new render callback is called.  An exception thrown
\* by an effect makes React take the component down.
renderEffect ==
    /\ mapMounted
    /\ effectDue
    /\ effectDue' = FALSE
    /\ closureRoads' = RoadClosure(shotRoads)
    /\ closureJunctions' = JunctionClosure(shotJunctions)
    /\ RenderWith(closureRoads', closureJunctions',
                  IF animationRef # 0 THEN pending \ {animationRef} ELSE pending)
    /\ mapMounted' = ~drawn'.threw
    /\ lastOp' = Op("effect", NoId)
    /\ UNCHANGED <<storeVars, shotVars, connVars, wireVars, demoVars, viewVars>>

\* the browser runs a requested frame: render, which returns at once when the
\* canvas is gone
onAnimationFrame ==
    /\ \E id \in pending :
          IF mapMounted
          THEN RenderWith(closureRoads, closureJunctions, pending \ {id})
          ELSE /\ pending' = pending \ {id}
               /\ UNCHANGED <<animationRef, drawn>>
    /\ lastOp' = Op("frame", NoId)
    /\ UNCHANGED <<mapMounted, effectDue, closureRoads, closureJunctions, storeVars, shotVars,
                   connVars, wireVars, demoVars, viewVars>>

\* CityMap is unmounted: the effect's cleanup
unmountCityMap ==
    /\ mapMounted
    /\ mapMounted' = FALSE
    /\ effectDue' = FALSE
    /\ pending' = IF animationRef # 0 THEN pending \ {animationRef} ELSE pending
    /\ lastOp' = Op("unmount", "CityMap")
    /\ UNCHANGED <<animationRef, closureRoads, closureJunctions, drawn, storeVars, shotVars,
                   connVars, wireVars, demoVars, viewVars>>

(***************************************************************************)
(* Projection (CityMap.tsx gpsToCanvas, GandhinagarMap.tsx canvasToGPS)    *)
(*                                                                         *)
(* Degrees are integers in units of 1/1000 degree; pixels are integers; a  *)
(* result of canvasToGPS is an exact fraction of such units.               *)
(***************************************************************************)
\* GANDHINAGAR_BOUNDS, the same numbers in both files
North == 23250
South == 23180
East == 72680
West == 72600

\* gpsToCanvas: padding = 20
Padding == 20

\* CityMap: width = 800, height = 600; canvasToGPS: the same defaults
DefaultWidth == 800
DefaultHeight == 600

Fraction(num, den) == [num |-> num, den |-> den]

\* Math.round(num / den) for den > 0: the nearest integer, halves upwards
MathRound(num, den) == (2 * num + den) \div (2 * den)

gpsToCanvas(lat, lon, canvasWidth, canvasHeight) ==
    LET latRange == North - South
        lonRange == East - West
        usableWidth == canvasWidth - 2 * Padding
        usableHeight == canvasHeight - 2 * Padding
    IN  [x |-> MathRound(Padding * lonRange + (lon - West) * usableWidth, lonRange),
         y |-> MathRound(Padding * latRange + (North - lat) * usableHeight, latRange)]

canvasToGPS(x, y, canvasWidth, canvasHeight) ==
    [lat |-> Fraction(South * canvasHeight + (canvasHeight - y) * (North - South),
                      canvasHeight),
     lng |-> Fraction(West * canvasWidth + x * (East - West), canvasWidth)]

\* the surfaces explored: the default one and one of half its size
Surfaces ==
    { [width |-> DefaultWidth, height |-> DefaultHeight],
      [width |-> DefaultWidth \div 2, height |-> DefaultHeight \div 2] }

\* the points explored: a grid over the bounds, edges included
GridPoints ==
    { [lat |-> South + (i * (North - South)) \div GridSteps,
       lon |-> West + (j * (East - West)) \div GridSteps] :
      i \in 0..GridSteps, j \in 0..GridSteps }

projFrame == <<storeVars, shotVars, connVars, wireVars, demoVars, mapVars, hoverVars, appVars>>

\* a call gpsToCanvas(lat, lon, width, height)
project ==
    \E p \in GridPoints, sf \in Surfaces :
        /\ geo' = p
        /\ surface' = sf
        /\ canvasPos' = gpsToCanvas(p.lat, p.lon, sf.width, sf.height)
        /\ projPc' = "projected"
        /\ lastOp' = Op("gpsToCanvas", NoId)
        /\ UNCHANGED <<gps, projFrame>>

\* points inside and outside the bounds: the grid continued by the size of
\* the bounds on every side
WidePoints ==
    { [lat |-> South + (i * (North - South)) \div GridSteps,
       lon |-> West + (j * (East - West)) \div GridSteps] :
      i \in (-GridSteps)..(2 * GridSteps), j \in (-GridSteps)..(2 * GridSteps) }

\* a call gpsToCanvas(lat, lon, width, height) with any coordinate
projectAny ==
    \E p \in WidePoints, sf \in Surfaces :
        /\ geo' = p
        /\ surface' = sf
        /\ canvasPos' = gpsToCanvas(p.lat, p.lon, sf.width, sf.height)
        /\ projPc' = "projected"
        /\ lastOp' = Op("gpsToCanvas", NoId)
        /\ UNCHANGED <<gps, projFrame>>

\* a call canvasToGPS(x, y, width, height) on the pixel gpsToCanvas returned
unproject ==
    /\ projPc = "projected"
    /\ gps' = canvasToGPS(canvasPos.x, canvasPos.y, surface.width, surface.height)
    /\ projPc' = "unprojected"
    /\ lastOp' = Op("canvasToGPS", NoId)
    /\ UNCHANGED <<surface, geo, canvasPos, projFrame>>

(***************************************************************************)
(* CityMap: hover (components/CityMap.tsx handleMouseMove)                 *)
(***************************************************************************)
\* the radius of the hit test, in pixels
HoverRadius == 30

\* the pixel handleMouseMove gives a junction: lat / lon projected, else
\* position, projected when it looks like degrees
JunctionPixel(junction, width, height) ==
    IF "lat" \in DOMAIN junction /\ "lon" \in DOMAIN junction
    THEN gpsToCanvas(junction.lat, junction.lon, width, height)
    ELSE IF /\ junction.position.x > 70 /\ junction.position.x < 80
            /\ junction.position.y > 20 /\ junction.position.y < 30
    THEN gpsToCanvas(junction.position.y * 1000, junction.position.x * 1000, width, height)
    ELSE junction.position

\* dx * dx + dy * dy; Math.sqrt of it is below 30 exactly when it is below 900
DistanceSquared(a, b) == (a.x - b.x) * (a.x - b.x) + (a.y - b.y) * (a.y - b.y)

WithinRadius(junction, pos) ==
    DistanceSquared(pos, JunctionPixel(junction, DefaultWidth, DefaultHeight))
        < HoverRadius * HoverRadius

\* the for loop with its break: the first junction of the array within the radius
FirstWithinRadius(js, pos) ==
    IF \A i \in 1..Len(js) : ~WithinRadius(js[i], pos)
    THEN Null
    ELSE js[CHOOSE i \in 1..Len(js) :
               WithinRadius(js[i], pos) /\ \A k \in 1..(i - 1) : ~WithinRadius(js[k], pos)].id

\* a junction with lat / lon, as the live map's records carry them
GpsJunction(id, lat, lon) ==
    [id |-> id, ref |-> 0, lat |-> lat, lon |-> lon,
     position |-> [x |-> 0, y |-> 0],
     signals |-> [d \in Directions |-> createSignalState("RED", 30)],
     lastSignalChange |-> LoadTime]

\* junction arrays under the pointer: the first holds two junctions 40 px
\* apart, the second two junctions with lat / lon that project 38 px apart
HoverJunctionSnapshots ==
    { <<MockJunction("J-001", 100, 100, "RED", 30, "GREEN", 25),
        MockJunction("J-002", 140, 100, "GREEN", 20, "RED", 35),
        MockJunction("J-003", 400, 300, "RED", 30, "GREEN", 25)>>,
      <<GpsJunction("G-001", 23240, 72610), GpsJunction("G-002", 23240, 72614)>> }

\* pointer positions relative to the canvas
PointerPositions ==
    { [x |-> 100, y |-> 100], [x |-> 125, y |-> 100], [x |-> 150, y |-> 100],
      [x |-> 400, y |-> 310], [x |-> 700, y |-> 500] }

hoverFrame == <<storeVars, shotVars, connVars, wireVars, demoVars, mapVars, projVars, appVars>>

LoadHoverJunctions ==
    \E js \in HoverJunctionSnapshots : updateJunctions(Allocate(js, LiveJunctionRefs))

\* onMouseMove with the pointer at (x, y) of the canvas; junctions are those of
\* the last render of CityMap
handleMouseMove(x, y) ==
    /\ mapMounted
    /\ mousePos' = [x |-> x, y |-> y]
    /\ hoveredJunction' = FirstWithinRadius(shotJunctions, mousePos')
    /\ lastOp' = Op("mousemove", NoId)
    /\ UNCHANGED hoverFrame

onMouseLeave ==
    /\ mapMounted
    /\ hoveredJunction' = Null
    /\ lastOp' = Op("mouseleave", NoId)
    /\ UNCHANGED <<mousePos, hoverFrame>>

PointerMoves == \E pos \in PointerPositions : handleMouseMove(pos.x, pos.y)

(***************************************************************************)
(* Mode and agent events (services/websocketIntegration.ts)                *)
(***************************************************************************)
modeFrame == <<storeVars, shotVars, connVars, wireVars, demoVars, mapVars, hoverVars,
               projVars, wsConnected, integVars>>

\* store.setMode(mode), as the handlers below call it
setMode(m, event) ==
    /\ mode' = m
    /\ lastOp' = Op(event, NoId)
    /\ UNCHANGED <<agentStatus, agentStrategy, modeFrame>>

\* handler of emergency:activated
onEmergencyActivated == setMode("EMERGENCY", "emergency:activated")

\* handler of emergency:deactivated
onEmergencyDeactivated == setMode("NORMAL", "emergency:deactivated")

\* handler of failsafe:triggered
onFailsafeTriggered == setMode("FAIL_SAFE", "failsafe:triggered")

\* handler of failsafe:cleared
onFailsafeCleared == setMode("NORMAL", "failsafe:cleared")

\* payloads of agent:status_update
AgentStatusInputs ==
    [status : {"RUNNING", "PAUSED", "STOPPED"}, strategy : {"RL", "RULE_BASED"}]

\* handler of agent:status_update
onAgentStatusUpdate(data) ==
    /\ agentStatus' = data.status
    /\ agentStrategy' = data.strategy
    /\ lastOp' = Op("agent:status_update", NoId)
    /\ UNCHANGED <<mode, modeFrame>>

(***************************************************************************)
(* Store handlers on the socket (services/websocketIntegration.ts, App.tsx)*)
(*                                                                         *)
(* Of the 18 events setupWebSocketListeners subscribes to, the model keeps *)
(* IntegrationEvents.  Every call creates new handler functions; the one   *)
(* of the k-th call is Closure(k).                                         *)
(***************************************************************************)
integFrame == <<junctions, roads, shotVars, connVars, emitted, promise, ack, demoVars,
                mapVars, hoverVars, projVars, wsConnected, modeVars>>

\* events subscribed by setupWebSocketListeners, in the order of the calls
IntegrationEvents == <<"vehicle:update", "vehicle:spawned", "signal:change">>

\* the handler functions created by the k-th call
Closure(k) == "closure" \o ToString(k)

\* entries of cleanupFunctions: an unsubscribe function returned by on(), or
\* () => clearInterval(connectionCheck)
Unsubscribe(event, callback) ==
    [kind |-> "off", event |-> event, callback |-> callback, timer |-> 0]
ClearInterval(timer) ==
    [kind |-> "clearInterval", event |-> NoId, callback |-> NoId, timer |-> timer]

RECURSIVE AttachedAfterCleanup(_, _, _)
\* the socket's callbacks after cleanup functions n.. of fns have run
AttachedAfterCleanup(att, fns, n) ==
    IF n > Len(fns) THEN att
    ELSE IF fns[n].kind = "off"
    THEN AttachedAfterCleanup(
            [att EXCEPT ![fns[n].event] = RemoveFirst(@, fns[n].callback)], fns, n + 1)
    ELSE AttachedAfterCleanup(att, fns, n + 1)

\* the registry after the cleanup functions fns have run
ListenersAfterCleanup(ls, fns) ==
    [e \in DOMAIN ls |->
        ls[e] \ {fns[n].callback : n \in {m \in 1..Len(fns) : fns[m].kind = "off"
                                                              /\ fns[m].event = e}}]

\* the intervals still set after the cleanup functions fns have run
IntervalsAfterCleanup(set, fns) ==
    set \ {fns[n].timer : n \in {m \in 1..Len(fns) : fns[m].kind = "clearInterval"}}

\* the subscriptions and the interval of one call, added to what was left
\* by `before`, the cleanup functions run first
SetupOn(before) ==
    LET k == setups + 1
        subscribed == {IntegrationEvents[i] : i \in 1..Len(IntegrationEvents)}
        att == AttachedAfterCleanup(attached, before, 1)
        ls == ListenersAfterCleanup(listeners, before)
    IN  /\ setups < MaxSetups
        /\ attached' = [e \in InboundEvents |->
                           IF e \in subscribed THEN Append(att[e], Closure(k)) ELSE att[e]]
        /\ listeners' = [e \in InboundEvents |->
                            IF e \in subscribed THEN ls[e] \cup {Closure(k)} ELSE ls[e]]
        /\ unsubs' = unsubs \cup {<<e, Closure(k)>> : e \in subscribed}
        /\ intervals' = IntervalsAfterCleanup(intervals, before) \cup {k}
        /\ cleanupFunctions' =
              SubSeq(cleanupFunctions, Len(before) + 1, Len(cleanupFunctions))
                \o [i \in 1..Len(IntegrationEvents) |->
                       Unsubscribe(IntegrationEvents[i], Closure(k))]
                \o <<ClearInterval(k)>>
        /\ setups' = k

\* setupWebSocketListeners without its first statement
SetupWithoutCleanup == SetupOn(<<>>)

\* the body of setupWebSocketListeners: cleanupWebSocketListeners(), then the
\* subscriptions and the interval
SetupListeners == SetupOn(cleanupFunctions)

\* a call of setupWebSocketListeners()
setupWebSocketListeners ==
    /\ SetupListeners
    /\ lastOp' = Op("setupWebSocketListeners", NoId)
    /\ UNCHANGED <<app, appInit, vehicles, vehicleCount, integFrame>>

\* a call of cleanupWebSocketListeners()
cleanupWebSocketListeners ==
    /\ attached' = AttachedAfterCleanup(attached, cleanupFunctions, 1)
    /\ listeners' = ListenersAfterCleanup(listeners, cleanupFunctions)
    /\ intervals' = IntervalsAfterCleanup(intervals, cleanupFunctions)
    /\ cleanupFunctions' = <<>>
    /\ lastOp' = Op("cleanupWebSocketListeners", NoId)
    /\ UNCHANGED <<unsubs, setups, app, appInit, vehicles, vehicleCount, integFrame>>

\* the socket delivers vehicle:spawned: every callback attached to the event is
\* called with the payload, each appending the vehicle
deliverVehicleSpawned(data) ==
    LET n == Len(attached["vehicle:spawned"])
    IN  /\ Len(vehicles) + n <= MaxVehicles
        /\ vehicles' = vehicles \o [i \in 1..n |-> SpawnedVehicle(data)]
        /\ vehicleCount' = vehicleCount + n
        /\ lastOp' = Op("deliver", "vehicle:spawned")
        /\ UNCHANGED <<subVars, integVars, integFrame>>

\* the 5 s interval callback: it logs when the service is not connected
connectionCheck ==
    /\ intervals # {}
    /\ lastOp' = Op("connectionCheck", NoId)
    /\ UNCHANGED <<subVars, integVars, vehicles, vehicleCount, integFrame>>

\* App's initialization effect: cleanup = setupWebSocketListeners(), which
\* returns nothing; initialize() is started and the effect returns cleanup
appEffect ==
    /\ app = "initial"
    /\ app' = "mounted"
    /\ appInit' = "pending"
    /\ SetupListeners
    /\ lastOp' = Op("App:effect", NoId)
    /\ UNCHANGED <<vehicles, vehicleCount, integFrame>>

\* App is unmounted: React runs what the effect returned, which is undefined
unmountApp ==
    /\ app = "mounted"
    /\ app' = "unmounted"
    /\ lastOp' = Op("unmount", "App")
    /\ UNCHANGED <<subVars, cleanupFunctions, intervals, setups, appInit, vehicles,
                   vehicleCount, integFrame>>

\* what GET /api/system/state answers
ApiSystemStates ==
    [mode : {"NORMAL", "FAIL_SAFE"},
     agent : {[status |-> "RUNNING", strategy |-> "RULE_BASED"]},
     performance : {[vehicleCount |-> n, avgDensity |-> 10, fps |-> 60] :
                       n \in {0, MaxVehicles}}]

\* initialize() of App's effect, both requests answered
initializeLoaded(state) ==
    /\ appInit = "pending"
    /\ appInit' = "loaded"
    /\ mode' = state.mode
    /\ agentStatus' = state.agent.status
    /\ agentStrategy' = state.agent.strategy
    /\ vehicleCount' = state.performance.vehicleCount
    /\ perf' = [perf EXCEPT !.avgDensity = state.performance.avgDensity,
                            !.fps = state.performance.fps]
    /\ lastOp' = Op("initialize:loaded", NoId)
    /\ UNCHANGED <<vehicles, junctions, roads, shotVars, connVars, wireVars, mounted,
                   fetchPc, demoMode, intervalOn, vehiclesRef, timeRef, simulationTime,
                   isRunning, mapVars, hoverVars, projVars, wsConnected, cleanupFunctions,
                   intervals, setups, app>>

\* initialize() of App's effect, a request rejected: the error page
initializeFailed ==
    /\ appInit = "pending"
    /\ appInit' = "failed"
    /\ lastOp' = Op("initialize:failed", NoId)
    /\ UNCHANGED <<subVars, cleanupFunctions, intervals, setups, app, vehicles,
                   vehicleCount, integFrame>>

(***************************************************************************)
(* Specifications                                                          *)
(***************************************************************************)
\* initialState of the store; the WebSocketService right after construction,
\* with the automatic first attempt in flight
Init ==
    /\ vehicles = <<>>
    /\ vehicleCount = 0
    /\ junctions = <<>>
    /\ roads = <<>>
    /\ status = "disconnected"
    /\ reconnectAttempts = 0
    /\ sock = "opening"
    /\ backoffAttempts = 0
    /\ reconnecting = FALSE
    /\ exhausted = FALSE
    /\ socketLevelEvents \in BOOLEAN
    /\ shotJunctions = <<>>
    /\ shotRoads = <<>>
    /\ shotJunctionsAt = <<>>
    /\ shotRoadsAt = <<>>
    /\ emitted = <<>>
    /\ promise = "none"
    /\ ack = "none"
    /\ listeners = [e \in InboundEvents |-> {}]
    /\ attached = [e \in InboundEvents |-> <<>>]
    /\ unsubs = {}
    /\ mounted = TRUE
    /\ fetchPc = "pending"
    /\ demoMode = FALSE
    /\ intervalOn = FALSE
    /\ vehiclesRef \in MockVehicleSeeds
    /\ timeRef = 0
    /\ simulationTime = 0
    /\ isRunning = FALSE
    /\ perf = [avgDensity |-> 0, congestionPoints |-> 0, throughput |-> 0, fps |-> 60]
    /\ mapMounted = TRUE
    /\ effectDue = TRUE
    /\ pending = {}
    /\ animationRef = 0
    /\ closureRoads = <<>>
    /\ closureJunctions = <<>>
    /\ drawn = NothingDrawn
    /\ hoveredJunction = Null
    /\ mousePos = [x |-> 0, y |-> 0]
    /\ surface = [width |-> DefaultWidth, height |-> DefaultHeight]
    /\ geo = [lat |-> South, lon |-> West]
    /\ canvasPos = [x |-> 0, y |-> 0]
    /\ gps = [lat |-> Fraction(0, 1), lng |-> Fraction(0, 1)]
    /\ projPc = "idle"
    /\ wsConnected = FALSE
    /\ mode = "NORMAL"
    /\ agentStatus = "STOPPED"
    /\ agentStrategy = "RL"
    /\ cleanupFunctions = <<>>
    /\ intervals = {}
    /\ setups = 0
    /\ app = "initial"
    /\ appInit = "idle"
    /\ lastOp = Op("init", NoId)

\* the store's operations do not depend on how the transport delivers its events
InitStore == Init /\ socketLevelEvents /\ vehiclesRef = mockVehicles

\* the service's operations do not depend on the demo vehicles generated
InitWire == Init /\ vehiclesRef = mockVehicles

\* the REST snapshot written by the dashboard's initial fetch
LoadVehicles == \E vs \in VehicleSnapshots : updateVehicles(vs)
LoadJunctions == \E js \in JunctionSnapshots : updateJunctions(Allocate(js, LiveJunctionRefs))
LoadRoads == \E rs \in RoadSnapshots : updateRoads(Allocate(rs, LiveRoadRefs))

\* vehicles: store calls and transport events
NextVeh ==
    \/ LoadVehicles
    \/ \E update \in StoreVehicleDeltas : updateVehicle(update)
    \/ \E id \in VehicleIds \cup {UnknownVehicleId} : removeVehicle(id)
    \/ \E data \in VehicleUpdateInputs : onVehicleUpdate(data)
    \/ \E data \in VehicleBatchInputs : onVehicleBatchUpdate(data)
    \/ \E data \in VehicleSpawnInputs : onVehicleSpawned(data)
    \/ \E id \in VehicleIds \cup {UnknownVehicleId} : onVehicleRemoved([vehicleId |-> id])

SpecVeh == InitStore /\ [][NextVeh]_vars

\* junction signals: store calls and transport events
NextJun ==
    \/ LoadJunctions
    \/ \E j \in JunctionIds \cup {UnknownJunctionId}, d \in ChangedDirections, now \in Clock :
          updateJunctionSignal(j, d, "YELLOW", now)
    \/ \E data \in SignalChangeInputs : onSignalChange(data)

SpecJun == InitStore /\ [][NextJun]_vars

\* the transport's connection status next to a loaded store
NextConn ==
    \/ LoadVehicles
    \/ LoadJunctions
    \/ LoadRoads
    \/ onConnect
    \/ onDisconnect
    \/ onConnectError
    \/ onReconnectAttempt
    \/ onReconnect
    \/ connect
    \/ disconnect

SpecConn == InitWire /\ [][NextConn]_vars

\* the connection next to the outbound calls of the service
NextEmit ==
    \/ onConnect
    \/ onDisconnect
    \/ onConnectError
    \/ onReconnectAttempt
    \/ onReconnect
    \/ connect
    \/ disconnect
    \/ \E call \in EmitCalls : emit(call.event, call.data)
    \/ \E now \in Clock : controlSimulation("PAUSE", now)
    \/ spawnVehicle("car", Undef, Undef)
    \/ overrideSignal("J1", "north", "FORCE_GREEN", Undef)
    \/ triggerEmergency("J1", "J2")
    \/ clearEmergency(Undef)
    \/ loadMap("predefined", "gandhinagar")
    \/ changeTrafficMode("SIMULATION", Undef)
    \/ setTrafficOverride("R1", "JAM", Undef)
    \/ clearTrafficOverride(Undef)
    \/ subscribe(Channels)
    \/ unsubscribe(Channels)

SpecEmit == InitWire /\ [][NextEmit]_vars

\* the connection next to the calls that await an acknowledgement
NextAck ==
    \/ onConnect
    \/ onDisconnect
    \/ onConnectError
    \/ onReconnectAttempt
    \/ onReconnect
    \/ connect
    \/ disconnect
    \/ \E call \in EmitCalls : emitWithAck(call.event, call.data)
    \/ \E response \in AckResponses : onAck(response)

SpecAck == InitWire /\ [][NextAck]_vars

\* The event loop runs every callback that is due: the server's answer, the
\* events of the socket and the retry timer.  Calls made by the application
\* (connect, disconnect, emitWithAck) are not forced.
SpecAckFair ==
    /\ SpecAck
    /\ WF_vars(\E response \in AckResponses : onAck(response))
    /\ WF_vars(onConnect)
    /\ WF_vars(onReconnectAttempt)
    /\ WF_vars(onConnectError \/ onReconnect)

\* the subscription calls of the service
NextSub ==
    \/ \E e \in SubEvents, h \in Callbacks : on(e, h)
    \/ \E e \in SubEvents, h \in Callbacks : off(e, h)
    \/ \E e \in SubEvents, h \in Callbacks : callUnsubscribe(e, h)
    \/ \E e \in SubEvents : removeAllListenersOf(e)
    \/ removeAllListeners

SpecSub == InitWire /\ [][NextSub]_vars

\* the dashboard's start-up next to the transport
NextDemo ==
    \/ onConnect
    \/ onDisconnect
    \/ onConnectError
    \/ onReconnectAttempt
    \/ onReconnect
    \/ fetchInitialDataLoaded
    \/ fetchInitialDataFailed
    \/ useDemoModeEffect
    \/ tick
    \/ unmountDashboard

SpecDemo == Init /\ [][NextDemo]_vars

\* Every request of fetchInitialData is answered or fails, React runs the effect
\* of a committed render, the interval fires, and the event loop delivers the
\* socket's events and the retry timer.
SpecDemoFair ==
    /\ SpecDemo
    /\ WF_vars(fetchInitialDataLoaded \/ fetchInitialDataFailed)
    /\ WF_vars(useDemoModeEffect)
    /\ WF_vars(tick)
    /\ WF_vars(onConnect)
    /\ WF_vars(onReconnectAttempt)
    /\ WF_vars(onConnectError \/ onReconnect)

\* the map's render loop next to the store's snapshots
NextRender ==
    \/ LoadDrawnRoads
    \/ LoadDrawnJunctions
    \/ rerenderCityMap
    \/ renderEffect
    \/ onAnimationFrame
    \/ unmountCityMap

SpecRender == InitStore /\ [][NextRender]_vars

\* the pointer over the map next to the store's junction snapshots
NextHover ==
    \/ LoadHoverJunctions
    \/ rerenderCityMap
    \/ PointerMoves
    \/ onMouseLeave

SpecHover == InitStore /\ [][NextHover]_vars

\* the two projections applied one after the other
NextProj ==
    \/ project
    \/ unproject

SpecProj == InitStore /\ [][NextProj]_vars

\* the projection applied to coordinates inside and outside the bounds
SpecProjAny == InitStore /\ [][projectAny]_vars

\* the simulator alone: the fetch fails, demo mode starts and the interval runs
InitRun == Init /\ socketLevelEvents /\ vehiclesRef = midwayVehicles

NextRun ==
    \/ fetchInitialDataFailed
    \/ useDemoModeEffect
    \/ intervalTick

SpecRun == InitRun /\ [][NextRun]_vars

\* mode and agent events next to the transport's connection events
NextMode ==
    \/ onConnect
    \/ onDisconnect
    \/ onConnectError
    \/ onReconnectAttempt
    \/ onReconnect
    \/ onEmergencyActivated
    \/ onEmergencyDeactivated
    \/ onFailsafeTriggered
    \/ onFailsafeCleared
    \/ \E data \in AgentStatusInputs : onAgentStatusUpdate(data)

SpecMode == InitStore /\ [][NextMode]_vars

\* the simulator and the live vehicle handlers on the same store
NextBoth ==
    \/ fetchInitialDataFailed
    \/ useDemoModeEffect
    \/ tick
    \/ \E data \in LiveSpawnInputs : liveVehicleSpawned(data)
    \/ \E data \in LiveUpdateInputs : liveVehicleUpdate(data)
    \/ \E id \in LiveVehicleIds : liveVehicleRemoved([vehicleId |-> id])

SpecBoth == InitRun /\ [][NextBoth]_vars

\* the integration module's two functions next to deliveries
NextInteg ==
    \/ setupWebSocketListeners
    \/ cleanupWebSocketListeners
    \/ \E data \in VehicleSpawnInputs : deliverVehicleSpawned(data)
    \/ connectionCheck

SpecInteg == InitStore /\ [][NextInteg]_vars

\* the App component's life next to deliveries
NextApp ==
    \/ appEffect
    \/ \E state \in ApiSystemStates : initializeLoaded(state)
    \/ initializeFailed
    \/ unmountApp
    \/ \E data \in VehicleSpawnInputs : deliverVehicleSpawned(data)
    \/ connectionCheck

SpecApp == InitStore /\ [][NextApp]_vars

\* the deltas explored next to a reader: one junction direction, one road
ShotSignalInputs ==
    { d \in SignalChangeInputs : d.junctionId = "J1" /\ d.direction = "north" }
ShotDensityInputs ==
    { d \in DensityInputs : d.roadId = "R1" /\ d.densityScore = 55 }

\* readers next to the junction and road writers
NextShot ==
    \/ ReaderCapture
    \/ LoadJunctions
    \/ LoadRoads
    \/ \E now \in Clock : updateJunctionSignal("J1", "north", "YELLOW", now)
    \/ \E data \in ShotSignalInputs : onSignalChange(data)
    \/ \E data \in ShotDensityInputs :
          updateRoadDensity(data.roadId, data.densityScore, data.classification,
                            data.vehicleCount)
    \/ \E data \in ShotDensityInputs : onDensityUpdate(data)
    \/ \E data \in ShotDensityInputs : onDensityBatchUpdate(<<data>>)

SpecShot == InitStore /\ [][NextShot]_vars

(***************************************************************************)
(* Claims                                                                  *)
(***************************************************************************)
\* the fields a vehicle:update payload carries, under the vehicle's field names
CarriedFields(data) ==
    LET all == [position |-> data.position, speed |-> data.speed, heading |-> data.heading,
                lastUpdate |-> data.timestamp, lat |-> data.lat, lon |-> data.lon]
        carried == {"position", "speed", "heading", "lastUpdate"}
                     \cup {f \in {"lat", "lon"} : all[f] # Undef}
    IN  [f \in carried |-> all[f]]

\* C1: an update delta applied to an existing vehicle (vehicle:update event or
\* store.updateVehicle) leaves the vehicle equal to the shallow merge of the
\* delta over its prior state: carried fields take the delta's value, every
\* field the delta omits (lat / lon) keeps its prior value.
C1_ShallowMerge ==
    [][ /\ \A data \in VehicleUpdateInputs :
             LET k == FindIndex(vehicles, data.vehicleId)
             IN  (onVehicleUpdate(data) /\ k # 0)
                    => vehicles'[k] = Spread(vehicles[k], CarriedFields(data))
        /\ \A update \in StoreVehicleDeltas :
             LET k == FindIndex(vehicles, update.id)
             IN  (updateVehicle(update) /\ k # 0)
                    => vehicles'[k] = Spread(vehicles[k], update) ]_vars

\* the SignalState values of a junction array, by position and direction,
\* except direction d of the junctions with the given id
OtherSignals(js, id, d) ==
    [i \in 1..Len(js) |->
        [x \in DOMAIN js[i].signals \ (IF js[i].id = id THEN {d} ELSE {}) |->
            js[i].signals[x]]]

\* C2: a signal change for one direction of a junction (signal:change event
\* or store.updateJunctionSignal) leaves the SignalState of the junction's
\* other directions, and every signal of every other junction, as it was.
C2_OnlyThatDirection ==
    [][ /\ \A data \in SignalChangeInputs :
             onSignalChange(data)
                => OtherSignals(junctions', data.junctionId, data.direction)
                     = OtherSignals(junctions, data.junctionId, data.direction)
        /\ \A j \in JunctionIds \cup {UnknownJunctionId}, d \in ChangedDirections,
              now \in Clock :
             updateJunctionSignal(j, d, "YELLOW", now)
                => OtherSignals(junctions', j, d) = OtherSignals(junctions, j, d) ]_vars

\* C2 witness: signal:change turned J1.north from GREEN to RED while J1's other
\* directions and J2 are as loaded
C2_Witness ==
    /\ lastOp = Op("signal:change", "J1")
    /\ Len(junctions) = 2
    /\ junctions[1].signals["north"].current = "RED"
    /\ junctions[1].signals["north"].lastChange = 5
    /\ \A d \in Directions \ {"north"} : junctions[1].signals[d].lastChange = 0
    /\ junctions[2].signals["north"].current = "GREEN"

\* a field-for-field copy of a road without its identity
RoadFields(r) == [f \in DOMAIN r \ {"ref"} |-> r[f]]

\* C3: a batched update (vehicles:batch_update, density:batch_update) keeps the
\* number of entities and leaves every entity whose id is not in the batch
\* field-for-field unchanged.
C3_BatchFrame ==
    [][ /\ \A data \in VehicleBatchInputs :
             onVehicleBatchUpdate(data)
                => /\ Len(vehicles') = Len(vehicles)
                   /\ \A i \in 1..Len(vehicles) :
                        vehicles[i].id \notin {data[n].vehicleId : n \in 1..Len(data)}
                           => vehicles'[i] = vehicles[i]
        /\ \A data \in DensityBatchInputs :
             onDensityBatchUpdate(data)
                => /\ Len(roads') = Len(roads)
                   /\ \A i \in 1..Len(roads) :
                        roads[i].id \notin {data[n].roadId : n \in 1..Len(data)}
                           => RoadFields(roads'[i]) = RoadFields(roads[i]) ]_vars

\* C4: an update that references only ids the store does not hold
\* (vehicle:update, vehicles:batch_update, signal:change, density:update,
\* density:batch_update) leaves the collection as it was.
C4_UnknownIdIgnored ==
    [][ /\ \A data \in VehicleUpdateInputs :
             (onVehicleUpdate(data) /\ data.vehicleId \notin Ids(vehicles))
                => vehicles' = vehicles
        /\ \A data \in VehicleBatchInputs :
             (/\ onVehicleBatchUpdate(data)
              /\ \A n \in 1..Len(data) : data[n].vehicleId \notin Ids(vehicles))
                => vehicles' = vehicles
        /\ \A data \in SignalChangeInputs :
             (onSignalChange(data) /\ data.junctionId \notin Ids(junctions))
                => junctions' = junctions
        /\ \A data \in DensityInputs :
             (onDensityUpdate(data) /\ data.roadId \notin Ids(roads))
                => roads' = roads
        /\ \A data \in DensityBatchInputs :
             (/\ onDensityBatchUpdate(data)
              /\ \A n \in 1..Len(data) : data[n].roadId \notin Ids(roads))
                => roads' = roads ]_vars

\* C5: the store holds at most one vehicle per id, also after a spawn event
\* whose vehicleId already exists.
C5_OneVehiclePerId == UniqueIds(vehicles)

\* C6: removing an id the store does not hold (vehicle:removed or
\* store.removeVehicle) changes neither the vehicles nor any other store field,
\* vehicleCount included.
C6_RemoveAbsentIsNoOp ==
    [][ \A id \in VehicleIds \cup {UnknownVehicleId} :
          (/\ id \notin Ids(vehicles)
           /\ removeVehicle(id) \/ onVehicleRemoved([vehicleId |-> id]))
             => UNCHANGED <<vehicles, vehicleCount, junctions, roads>> ]_vars

\* C7: the junction and road arrays a reader got from the store, and the
\* objects in them, hold what they held when the reader got them.
C7_SnapshotStable ==
    /\ shotJunctions = shotJunctionsAt
    /\ shotRoads = shotRoadsAt

ConnectionOps == {"connect", "disconnect", "connect_error", "reconnect_attempt",
                  "reconnect", "open", "connect()", "disconnect()"}

\* C8: a step of the transport's connection state (disconnect, connect_error,
\* reconnect attempt, reconnect, connect, connect(), disconnect()) leaves the
\* vehicles, junctions and roads of the store as they were.
C8_EntitiesRetained ==
    [][ (status' # status \/ lastOp'.op \in ConnectionOps)
          => UNCHANGED <<vehicles, junctions, roads>> ]_vars

\* C8 witness: the connection dropped while the store held entities
C8_Witness ==
    /\ lastOp.op = "disconnect"
    /\ status = "disconnected"
    /\ Len(vehicles) = 2
    /\ Len(junctions) = 2
    /\ Len(roads) = 2

\* C9: once the automatic attempts are exhausted the status is 'disconnected',
\* and no attempt is in flight or scheduled, until connect() is called.
C9_DisconnectedAfterExhaustion ==
    exhausted => (status = "disconnected" /\ sock = "closed" /\ ~reconnecting)

\* C10: the status enters 'error' or 'connected' only from 'connecting'.
C10_ThroughConnecting ==
    [][ (status' # status /\ status' \in {"error", "connected"})
          => status = "connecting" ]_vars

\* C11: _reconnectAttempts is always between 0 and _maxReconnectAttempts, and it
\* is 0 whenever the status is 'connected'.
C11_AttemptsBounded ==
    /\ reconnectAttempts \in 0..maxReconnectAttempts
    /\ status = "connected" => reconnectAttempts = 0

\* the calls of emit() and of the helpers built on it
OutboundCalls ==
    EmitCalls \cup
    { Message("simulation:control", [action |-> "PAUSE", timestamp |-> 9]),
      Message("vehicle:spawn", [type |-> "car", spawnPoint |-> Undef, destination |-> Undef]),
      Message("signal:override", [junctionId |-> "J1", direction |-> "north",
                                  action |-> "FORCE_GREEN", duration |-> Undef]),
      Message("emergency:trigger", [spawnPoint |-> "J1", destination |-> "J2"]),
      Message("emergency:clear", [vehicleId |-> Undef]),
      Message("map:load:request", [method |-> "predefined", parameters |-> "gandhinagar"]),
      Message("traffic:mode:change", [mode |-> "SIMULATION", provider |-> Undef]),
      Message("traffic:override:set", [roadId |-> "R1", congestionLevel |-> "JAM",
                                       duration |-> Undef]),
      Message("traffic:override:clear", [roadId |-> Undef]),
      Message("subscribe:updates", [channels |-> Channels]),
      Message("unsubscribe:updates", [channels |-> Channels]) }

\* C12: emit() and every helper built on it hands its message to the socket
\* exactly when the status is 'connected' at the call; in any other status
\* nothing is handed over or kept for later and the service is unchanged.
C12_EmitOnlyWhenConnected ==
    [][ lastOp'.op = "emit" =>
          /\ status = "connected" =>
                \E m \in OutboundCalls :
                    /\ m.event = lastOp'.id
                    /\ emitted' = Append(emitted, m)
          /\ status # "connected" => emitted' = emitted
          /\ UNCHANGED <<status, reconnectAttempts, sock, backoffAttempts, reconnecting,
                         exhausted>> ]_vars

\* C12 witness: a call made while connected was handed over, and a call made in
\* another status left nothing behind
C12_Witness ==
    /\ lastOp.op = "emit"
    /\ status # "connected"
    /\ Len(emitted) = 1

\* C13: every promise returned by emitWithAck eventually settles: a promise
\* that is pending is resolved or rejected later, whether the acknowledgement
\* arrives or not.
C13_EveryPromiseSettles ==
    (promise = "pending") ~> (promise \in {"resolved", "rejected"})

\* C14: after any sequence of on / off / unsubscribe / removeAllListeners the
\* registry of an event holds exactly the callbacks that are still attached to
\* the socket for that event, and a callback that was unsubscribed is no longer
\* attached.
C14_RegistryMatchesSocket ==
    \A e \in SubEvents : listeners[e] = Range(attached[e])

C16_SeededStore ==
    lastOp.op \in {"demo:start", "tick"} =>
        /\ Len(junctions) = 9
        /\ Len(roads) = 15
        /\ Len(vehicles) >= 1
        /\ vehicleCount = 35
        /\ Ids(junctions) = Ids(mockJunctions)
        /\ Ids(roads) = Ids(mockRoads)

\* C16 witness: the first tick has run
C16_Witness ==
    /\ lastOp.op = "tick"
    /\ timeRef = 1
    /\ Len(vehicles) = SeededVehicles

\* C17: at most one animation frame request is pending at any time, also when
\* the effect runs again for a re-created render callback; a request is made
\* only by a run of render whose drawing has finished; after teardown no
\* request is pending and nothing is drawn.
C17_OneFramePending ==
    /\ [](Cardinality(pending) <= 1 /\ (~mapMounted => pending = {}))
    /\ [][ /\ pending' \ pending # {} =>
                 (lastOp'.op \in {"effect", "frame"} /\ drawn' # drawn /\ ~drawn'.threw)
           /\ ~mapMounted => drawn' = drawn ]_vars

\* C17 witness: the effect ran again while a request was pending, and one
\* request is pending afterwards
C17_Witness ==
    /\ lastOp.op = "effect"
    /\ drawn.parity = 0
    /\ ~drawn.threw
    /\ Cardinality(pending) = 1
    /\ Len(closureRoads) = 3

\* C18: after every run of render each well-formed road and junction of its
\* closure has been drawn, whatever malformed records the arrays hold, and
\* the next frame is requested.
C18_FailuresIsolated ==
    lastOp.op \in {"effect", "frame"} =>
        /\ \A i \in 1..Len(closureRoads) :
              closureRoads[i].ok => closureRoads[i].id \in Range(drawn.roads)
        /\ \A i \in 1..Len(closureJunctions) :
              closureJunctions[i].ok => closureJunctions[i].id \in Range(drawn.junctions)
        /\ pending # {}

\* the junctions of the last render within the radius of the pointer
C19_Candidates ==
    {i \in 1..Len(shotJunctions) : WithinRadius(shotJunctions[i], mousePos)}

\* C19: after a pointer move the hovered junction is a junction nearest to
\* the pointer among those within 30 px of it, and null when there is none.
C19_HoverIsNearest ==
    lastOp.op = "mousemove" =>
        IF C19_Candidates = {}
        THEN hoveredJunction = Null
        ELSE \E i \in C19_Candidates :
                /\ hoveredJunction = shotJunctions[i].id
                /\ \A k \in C19_Candidates :
                      DistanceSquared(mousePos,
                                      JunctionPixel(shotJunctions[i], DefaultWidth,
                                                    DefaultHeight))
                        <= DistanceSquared(mousePos,
                                           JunctionPixel(shotJunctions[k], DefaultWidth,
                                                         DefaultHeight))

\* |a - b|
C20_Abs(n) == IF n < 0 THEN -n ELSE n

\* C20: the point canvasToGPS returns for the pixel gpsToCanvas gave lies
\* within one pixel of the original point in each axis, at the scale of the
\* projection (usable width per longitude range, usable height per latitude
\* range), for every point inside the bounds.
C20_RoundTrip ==
    projPc = "unprojected" =>
        /\ C20_Abs(gps.lng.num - geo.lon * gps.lng.den) * (surface.width - 2 * Padding)
              <= (East - West) * gps.lng.den
        /\ C20_Abs(gps.lat.num - geo.lat * gps.lat.den) * (surface.height - 2 * Padding)
              <= (North - South) * gps.lat.den

\* C21: whatever coordinate is projected, inside or outside the bounds, the
\* pixel returned lies in the padded rectangle of the surface.
C21_ClampedToPaddedRectangle ==
    lastOp.op = "gpsToCanvas" =>
        /\ Padding <= canvasPos.x
        /\ canvasPos.x <= surface.width - Padding
        /\ Padding <= canvasPos.y
        /\ canvasPos.y <= surface.height - Padding

\* C22: the store flag wsConnected is true exactly when the service's status
\* is "connected".
C22_IndicatorTracksTransport == wsConnected <=> status = "connected"

\* C23: while the simulator alone writes the store, at every junction north
\* and south show the same colour, east and west show the same colour, and
\* one of the two pairs is GREEN while the other is RED.
C23_PairsAlternate ==
    lastOp.op \in {"demo:start", "tick"} =>
        \A i \in 1..Len(junctions) :
            LET s == junctions[i].signals
            IN  /\ s.north.current = s.south.current
                /\ s.east.current = s.west.current
                /\ \/ s.north.current = "GREEN" /\ s.east.current = "RED"
                   \/ s.north.current = "RED" /\ s.east.current = "GREEN"

\* C23 witness: a tick has toggled some junction but not all of them
C23_Witness ==
    /\ lastOp.op = "tick"
    /\ timeRef % 30 = 0
    /\ timeRef > 0
    /\ \E i \in 1..Len(junctions) :
          junctions[i].signals.north.current # mockJunctions[i].signals.north.current
    /\ \E i \in 1..Len(junctions) :
          junctions[i].signals.north.current = mockJunctions[i].signals.north.current

\* C24: a tick keeps the number of vehicles and their ids; a vehicle whose
\* next position is outside the visible bounds is put, under its id, at the
\* start of a road of mockRoads with that road as currentRoad and that road's
\* direction as heading; no vehicle is outside the bounds after the tick.
C24_TickPreservesVehicles ==
    [][ lastOp'.op = "tick" =>
          /\ Len(vehicles') = Len(vehicles)
          /\ vehicleCount' = Len(vehicles)
          /\ \A i \in 1..Len(vehicles) :
                /\ vehicles'[i].id = vehicles[i].id
                /\ ~OutOfBounds(vehicles'[i].position)
                /\ OutOfBounds(Advanced(vehicles[i])) =>
                      \E r \in 1..Len(mockRoads) :
                          /\ vehicles'[i].position.x
                                = mockRoads[r].geometry.startPos.x * PerPixel
                          /\ vehicles'[i].position.y
                                = mockRoads[r].geometry.startPos.y * PerPixel
                          /\ vehicles'[i].currentRoad = mockRoads[r].id
                          /\ vehicles'[i].heading = RoadHeading(mockRoads[r])
          /\ UniqueIds(vehicles') ]_vars

\* C24 witness: a tick has respawned a vehicle on another road
C24_Witness ==
    /\ lastOp.op = "tick"
    /\ Len(vehicles) = SeededVehicles
    /\ \E i \in 1..Len(vehicles) :
          /\ vehicles[i].currentRoad # midwayVehicles[i].currentRoad
          /\ vehicles[i].position.y = mockRoads[FindRoadIndex(vehicles[i].currentRoad)].geometry.startPos.y * PerPixel

\* C26: in every state of the store vehicleCount is the number of vehicles
\* in the collection, and it is not negative.
C26_CountMatchesCollection == vehicleCount = Len(vehicles) /\ vehicleCount >= 0

\* C28: for every store state and every delta, a batch update holding only
\* that delta gives the same vehicles collection as the delta applied as one
\* vehicle:update event.
C28_SingleAndBatchAgree ==
    \A data \in VehicleUpdateInputs :
        ApplyVehicleBatch(MapValues(vehicles), <<data>>, 1) = UpdatedVehicles(vehicles, data)

\* C27: while the mode is FAIL_SAFE, set by failsafe:triggered, an
\* emergency:activated or emergency:deactivated event leaves it FAIL_SAFE.
C27_FailSafeHolds ==
    [][ (mode = "FAIL_SAFE"
           /\ lastOp'.op \in {"emergency:activated", "emergency:deactivated"})
          => mode' = "FAIL_SAFE" ]_vars

\* C25: whenever setupWebSocketListeners has been called, any number of times
\* and with or without cleanupWebSocketListeners before, one handler is
\* attached per subscribed event and a delivered event is applied once; after
\* cleanupWebSocketListeners none is attached and a delivered event leaves
\* the store as it is.
C25_SetupIdempotent ==
    /\ [](\A i \in 1..Len(IntegrationEvents) :
             Len(attached[IntegrationEvents[i]]) = IF cleanupFunctions = <<>> THEN 0 ELSE 1)
    /\ [][ lastOp'.op = "deliver" =>
             /\ Len(vehicles') <= Len(vehicles) + 1
             /\ cleanupFunctions = <<>> => UNCHANGED <<vehicles, vehicleCount>> ]_vars

\* C25 witness: the last explored call of setup without a cleanup in between, and a
\* delivery afterwards
C25_Witness ==
    /\ setups = MaxSetups
    /\ lastOp.op = "deliver"
    /\ Len(vehicles) = 1
    /\ intervals = {MaxSetups}

\* C30: once App is unmounted no handler of setupWebSocketListeners is
\* attached to the socket and no connectionCheck interval is set, and an
\* event delivered afterwards leaves the store as it is.
C30_TeardownUnsubscribes ==
    /\ [](app = "unmounted" =>
            /\ \A i \in 1..Len(IntegrationEvents) : attached[IntegrationEvents[i]] = <<>>
            /\ intervals = {})
    /\ [][ (app = "unmounted" /\ lastOp'.op = "deliver") =>
             UNCHANGED <<vehicles, vehicleCount>> ]_vars

\* C29: with live handlers writing to the store between the ticks, the store's
\* vehicles after every tick are the simulator's own list advanced by one step:
\* what a live event spawned, updated or removed since the tick before is gone.
C29_TickOverwritesLive ==
    [][ lastOp'.op = "tick" =>
          /\ \E now \in Clock, pick \in [Respawning(vehiclesRef) -> RespawnChoices] :
                vehicles' = animateMockVehicles(vehiclesRef, pick, now)
          /\ vehicles' = vehiclesRef'
          /\ Len(vehicles') = SeededVehicles
          /\ \A i \in 1..SeededVehicles : vehicles'[i].id = vehiclesRef[i].id
          /\ vehicleCount' = SeededVehicles ]_vars

\* C29 witness: a tick that found the store different from the simulator's list
C29_Witness ==
    /\ lastOp = Op("tick", "overwrite")
    /\ vehicles = vehiclesRef
    /\ timeRef = MaxTicks

=============================================================================
